---- MODULE Spec2Model ----
(***************************************************************************)
(* headline_surfers: the caption-synchronisation and video-composition     *)
(* pipeline of src/src/video_creator.py (VideoCreator.create_tiktok_video  *)
(* and the helpers it calls), as a state machine.                          *)
(*                                                                         *)
(* Units.  Times are Python floats in seconds; the model keeps them as     *)
(* integers in tenths of a second ("ticks"), so 3.0 s is 30, 0.2 s is 2,   *)
(* 1.5 s is 15.  Strings are sequences of one-character strings, so that   *)
(* str.split, re.split and str.strip are computed character by character.  *)
(* Python lists are 0-based; the sequences here are 1-based, so Python's   *)
(* captions[i] is captions[i + 1].                                         *)
(***************************************************************************)
EXTENDS Integers, Sequences, FiniteSets, TLC

VARIABLES
    pc,              \* position inside create_tiktok_video
    video_exists,    \* environment: assets/subway_surfers/gameplay.mp4 exists
    text,            \* parameter text (reassigned at line 172)
    segments,        \* result of generate_captions (line 169)
    sentences,       \* lines 173-177
    captions,        \* lines 180-196
    audio_duration,  \* line 200, ticks; -1 before the probe
    total_duration,  \* get_random_start_time's probe of the asset, ticks; -1 before
    start_time,      \* line 203, ticks; -1 before
    video,           \* the filter graph built on the variable video, a sequence of stages
    caption_files,   \* line 221/229
    clock,           \* time.time() in milliseconds, read by create_caption_image
    log,             \* history: the external calls made and the graph stages created,
                     \* in order (a stage is logged by its kind)
    exc,             \* the exception that reached the caller, "" when none
    result,          \* the value returned, <<>> when none
    caption_text,    \* create_caption_image: parameter text as passed in
    width,           \* create_caption_image: parameter width, pixels; 0 outside a render
    lines,           \* create_caption_image: lines (lines 64-80)
    font,            \* create_caption_image: the font loaded last, <<>> before
    font_size,       \* create_caption_image: font_size, points; 0 before line 85
    text_width,      \* create_caption_image: text_width, pixels; -1 before line 96
    temp_path,       \* create_caption_image: the value returned, <<>> when none
    news_pc,         \* NewsFetcher.fetch_articles: position; "idle" when not called
    date,            \* fetch_articles: parameter date
    max_articles,    \* NewsFetcher.max_articles (news_fetcher.py line 10)
    articles,        \* fetch_articles/_rank_articles: articles, by name
    ranking_response,\* _rank_articles: the text of the service's first candidate
    ranked,          \* _rank_articles: the value returned, <<>> when none
    news_result,     \* fetch_articles: the value returned, <<>> when none
    news_exc,        \* fetch_articles: the exception raised, "" when none
    detect_pc,       \* NewsFetcher._detect_category: position; "idle" when not called
    title,           \* _detect_category: parameter title
    description,     \* _detect_category: parameter description, <<>> holding it, or None
    category,        \* _detect_category: the value returned, "" before
    story_pc,        \* StoryGenerator.generate_story: position; "idle" when not called
    story_articles,  \* generate_story: parameter articles, each by the fields it has
    story_requests,  \* generate_story: the requests sent to the generation service
    story_text,      \* generate_story: story (line 87), as its words
    story_result,    \* generate_story: the value returned, <<>> when none
    story_exc,       \* generate_story: the exception raised, "" when none
    poster_pc,       \* TikTokPoster.post_video: position; "idle" when not called
    video_path,      \* post_video: parameter video_path
    session,         \* post_video: the calls made on self.api and the file opened, in order
    poster_response, \* post_video: response.json() (line 34), <<>> before
    poster_result,   \* post_video: the value returned, <<>> when none
    poster_exc,      \* post_video: the exception raised, "" when none
    avatar_pc,       \* AvatarGenerator.create_video: position; "idle" when not called
    celebrity,       \* create_video: parameter celebrity
    audio_path,      \* create_video: audio_path (line 45), <<>> before
    audio_exists,    \* the temporary audio file is on disk
    polls,           \* _create_talking_head: the status polls made (line 121), by their answers
    avatar_result,   \* create_video: the value returned, <<>> when none
    avatar_exc       \* create_video: the exception raised, "" when none

\* the variables of VideoCreator
coreVars == <<pc, video_exists, text, segments, sentences, captions, audio_duration,
          total_duration, start_time, video, caption_files, clock, log, exc, result,
          caption_text, width, lines, font, font_size, text_width, temp_path>>

\* the locals of create_caption_image
renderVars == <<caption_text, width, lines, font, font_size, text_width, temp_path>>

\* create_caption_image is not running
NoRender ==
    /\ caption_text = <<>>
    /\ width = 0
    /\ lines = <<>>
    /\ font = <<>>
    /\ font_size = 0
    /\ text_width = -1
    /\ temp_path = <<>>

\* the variables of NewsFetcher
newsVars == <<news_pc, date, max_articles, articles, ranking_response, ranked,
              news_result, news_exc>>

\* the variables of NewsFetcher._detect_category
detectVars == <<detect_pc, title, description, category>>

\* the variables of StoryGenerator
storyVars == <<story_pc, story_articles, story_requests, story_text, story_result,
               story_exc>>

\* the variables of TikTokPoster
posterVars == <<poster_pc, video_path, session, poster_response, poster_result,
                poster_exc>>

\* the variables of AvatarGenerator
avatarVars == <<avatar_pc, celebrity, audio_path, audio_exists, polls, avatar_result,
                avatar_exc>>

\* the variables of the classes around VideoCreator
serviceVars == <<newsVars, detectVars, storyVars, posterVars, avatarVars>>

\* all but the variables of one class
otherThanNews == <<coreVars, detectVars, storyVars, posterVars, avatarVars>>
otherThanDetect == <<coreVars, newsVars, storyVars, posterVars, avatarVars>>
otherThanStory == <<coreVars, newsVars, detectVars, posterVars, avatarVars>>
otherThanPoster == <<coreVars, newsVars, detectVars, storyVars, avatarVars>>
otherThanAvatar == <<coreVars, newsVars, detectVars, storyVars, posterVars>>

vars == <<coreVars, serviceVars>>

\* fetch_articles is not running
NoNews ==
    /\ news_pc = "idle"
    /\ date = <<>>
    /\ max_articles = 0
    /\ articles = <<>>
    /\ ranking_response = <<>>
    /\ ranked = <<>>
    /\ news_result = <<>>
    /\ news_exc = ""

\* _detect_category is not running
NoDetect ==
    /\ detect_pc = "idle"
    /\ title = <<>>
    /\ description = <<>>
    /\ category = ""

\* generate_story is not running
NoStory ==
    /\ story_pc = "idle"
    /\ story_articles = <<>>
    /\ story_requests = 0
    /\ story_text = <<>>
    /\ story_result = <<>>
    /\ story_exc = ""

\* post_video is not running
NoPoster ==
    /\ poster_pc = "idle"
    /\ video_path = ""
    /\ session = <<>>
    /\ poster_response = <<>>
    /\ poster_result = <<>>
    /\ poster_exc = ""

\* create_video is not running
NoAvatar ==
    /\ avatar_pc = "idle"
    /\ celebrity = ""
    /\ audio_path = <<>>
    /\ audio_exists = FALSE
    /\ polls = <<>>
    /\ avatar_result = <<>>
    /\ avatar_exc = ""

\* VideoCreator is not running
NoJob ==
    /\ pc = "idle"
    /\ video_exists = TRUE
    /\ text = <<>>
    /\ segments = <<>>
    /\ sentences = <<>>
    /\ captions = <<>>
    /\ audio_duration = -1
    /\ total_duration = -1
    /\ start_time = -1
    /\ video = <<>>
    /\ caption_files = <<>>
    /\ clock = 0
    /\ log = <<>>
    /\ exc = ""
    /\ result = <<>>
    /\ NoRender

\* none of the classes around VideoCreator is running
NoService == NoNews /\ NoDetect /\ NoStory /\ NoPoster /\ NoAvatar

(***************************************************************************)
(* Bounds of the model and constants of the program.                       *)
(***************************************************************************)
MaxTextLen == 3
MaxSegs == 2
MaxTime == 1
MaxDuration == 2
MaxSplitLen == 4

DefaultDuration == 30
FadeDuration == 2
TicksPerSecond == 10
\* the encoder's frame rate, r=30 at line 249, in frames per tick
FramesPerTick == 30 \div TicksPerSecond

Min(a, b) == IF a < b THEN a ELSE b
Max(a, b) == IF a > b THEN a ELSE b

(***************************************************************************)
(* Strings.                                                                *)
(***************************************************************************)
Whitespace == {" ", "\n"}
\* A faulty variant of Terminals: only the full stop ends a sentence.
Terminals_PeriodOnly == {"."}

\* line 174: the character class [.!?]
Terminals == {".", "!", "?"}

\* str.split() with no argument: the maximal runs of non-whitespace
\* characters, in the order of their first characters.
WordStarts(s) ==
    {i \in 1..Len(s) : s[i] \notin Whitespace /\ (i = 1 \/ s[i - 1] \in Whitespace)}

WordEnd(s, i) ==
    CHOOSE j \in i..Len(s) :
        /\ j = Len(s) \/ s[j + 1] \in Whitespace
        /\ \A k \in i..j : s[k] \notin Whitespace

Words(s) ==
    LET starts == WordStarts(s)
        nth(k) == CHOOSE i \in starts : Cardinality({j \in starts : j < i}) = k - 1
    IN  [k \in 1..Cardinality(starts) |-> SubSeq(s, nth(k), WordEnd(s, nth(k)))]

\* ' '.join(words)
RECURSIVE JoinSpace(_)
JoinSpace(words) ==
    IF words = <<>> THEN <<>>
    ELSE IF Len(words) = 1 THEN words[1]
    ELSE words[1] \o <<" ">> \o JoinSpace(Tail(words))

\* line 172: ' '.join(text.split())
NormalizeSpacing(t) == JoinSpace(Words(t))

\* A faulty variant of ReSplit: a comma ends a piece too.
RECURSIVE ReSplit_CommaToo(_, _, _)
ReSplit_CommaToo(s, cur, acc) ==
    IF s = <<>> THEN Append(acc, cur)
    ELSE IF Head(s) \in Terminals \cup {","}
         THEN ReSplit_CommaToo(Tail(s), <<>>, Append(acc, cur))
         ELSE ReSplit_CommaToo(Tail(s), Append(cur, Head(s)), acc)

\* re.split('[.!?]', text): the pieces between terminators, empty ones included.
RECURSIVE ReSplit(_, _, _)
ReSplit(s, cur, acc) ==
    IF s = <<>> THEN Append(acc, cur)
    ELSE IF Head(s) \in Terminals
         THEN ReSplit(Tail(s), <<>>, Append(acc, cur))
         ELSE ReSplit(Tail(s), Append(cur, Head(s)), acc)

\* str.strip()
RECURSIVE LStrip(_)
LStrip(s) == IF s # <<>> /\ Head(s) \in Whitespace THEN LStrip(Tail(s)) ELSE s

RECURSIVE RStrip(_)
RStrip(s) ==
    IF s # <<>> /\ s[Len(s)] \in Whitespace THEN RStrip(SubSeq(s, 1, Len(s) - 1)) ELSE s

Strip(s) == RStrip(LStrip(s))

\* A faulty variant of KeepNonEmpty: the pieces are kept as they were cut.
RECURSIVE KeepNonEmpty_NoStrip(_)
KeepNonEmpty_NoStrip(parts) ==
    IF parts = <<>> THEN <<>>
    ELSE IF Strip(Head(parts)) # <<>>
         THEN <<Head(parts)>> \o KeepNonEmpty_NoStrip(Tail(parts))
         ELSE KeepNonEmpty_NoStrip(Tail(parts))

\* lines 173-177: strip every piece, keep the non-empty ones, in order.
RECURSIVE KeepNonEmpty(_)
KeepNonEmpty(parts) ==
    IF parts = <<>> THEN <<>>
    ELSE LET part == Strip(Head(parts))
         IN  IF part # <<>> THEN <<part>> \o KeepNonEmpty(Tail(parts))
             ELSE KeepNonEmpty(Tail(parts))

SplitSentencesOf(t) == KeepNonEmpty(ReSplit(t, <<>>, <<>>))

(***************************************************************************)
(* Inputs.  The narration text, the transcript the engine returns and the  *)
(* two probed durations are the environment's choice.  Transcript segments *)
(* keep only the fields the code reads (start, end); the engine's contract *)
(* orders them by start time, and a segment may be empty (end = start).    *)
(* Scenario A and Scenario B of the specification are among the inputs.    *)
(***************************************************************************)
Alphabet == {"a", "."}
BoundedTexts == UNION {[1..n -> Alphabet] : n \in 0..MaxTextLen}

ScenarioAText ==
    <<"H", "e", "l", "l", "o", " ", "w", "o", "r", "l", "d", ".", " ",
      "T", "h", "i", "s", " ", "i", "s", " ", "g", "r", "e", "a", "t", "!", " ",
      "A", "r", "e", " ", "y", "o", "u", " ", "s", "u", "r", "e", "?">>

Texts == BoundedTexts \cup {ScenarioAText}

Times == 0..MaxTime
SegmentRecs == {[start |-> s, end |-> e] : s \in Times, e \in Times}

EngineContract(segs) ==
    \A k \in 1..Len(segs) :
        /\ segs[k].start <= segs[k].end
        /\ k > 1 => segs[k - 1].start <= segs[k].start

BoundedSegmentSeqs ==
    {segs \in UNION {[1..n -> SegmentRecs] : n \in 0..MaxSegs} : EngineContract(segs)}

ScenarioASegments == <<[start |-> 0, end |-> 15], [start |-> 16, end |-> 30]>>

SegmentSeqs == BoundedSegmentSeqs \cup {ScenarioASegments}

\* Scenario B: an 8.0 s asset under a 12.0 s narration.  The scenario's asset is
\* offered with the scenario's audio only, which keeps the offsets few.
ScenarioB == [asset |-> 80, audio |-> 120]
DurationSamples == 1..MaxDuration
AudioDurations == DurationSamples \cup {ScenarioB.audio}
AssetDurations(required) ==
    IF required = ScenarioB.audio THEN {ScenarioB.asset} ELSE DurationSamples

(***************************************************************************)
(* Segment Aligner, lines 180-196.                                         *)
(***************************************************************************)
\* A faulty variant of BorrowedCaption: the end is estimated instead of borrowed.
BorrowedCaption_EstimatedEnd(sentence, seg) ==
    [text |-> sentence, start |-> seg.start, end |-> seg.start + DefaultDuration]

\* lines 184-188: timing borrowed from the segment with the sentence's index
BorrowedCaption(sentence, seg) ==
    [text |-> sentence, start |-> seg.start, end |-> seg.end]

\* Faulty variants of EstimatedCaption: anchored at the first caption instead
\* of the last; an empty window; anchored at 0 whatever came before.
EstimatedCaption_FirstEnd(sentence, caps) ==
    LET last_end == IF caps # <<>> THEN caps[1].end ELSE 0
    IN  [text |-> sentence, start |-> last_end, end |-> last_end + DefaultDuration]

EstimatedCaption_EmptyWindow(sentence, caps) ==
    LET last_end == IF caps # <<>> THEN caps[Len(caps)].end ELSE 0
    IN  [text |-> sentence, start |-> last_end, end |-> last_end]

EstimatedCaption_FromZero(sentence, caps) ==
    [text |-> sentence, start |-> 0, end |-> DefaultDuration]

\* lines 191-196: timing estimated from the previous caption
EstimatedCaption(sentence, caps) ==
    LET last_end == IF caps # <<>> THEN caps[Len(caps)].end ELSE 0
    IN  [text |-> sentence, start |-> last_end, end |-> last_end + DefaultDuration]

\* A faulty variant of NextCaption: every caption carries the first sentence.
NextCaption_FirstSentence(sents, segs, caps) ==
    LET i == Len(caps)
    IN  IF i < Len(segs)
        THEN BorrowedCaption(sents[1], segs[i + 1])
        ELSE EstimatedCaption(sents[1], caps)

\* one iteration of the loop at line 181, for Python index i = Len(caps)
NextCaption(sents, segs, caps) ==
    LET i == Len(caps)
    IN  IF i < Len(segs)
        THEN BorrowedCaption(sents[i + 1], segs[i + 1])
        ELSE EstimatedCaption(sents[i + 1], caps)

(***************************************************************************)
(* Background Clip Selector, lines 33-38: the values random.uniform can    *)
(* return, on the tick grid.                                               *)
(***************************************************************************)
\* A faulty variant of RandomStartTimes: the required duration is not subtracted.
RandomStartTimes_WholeAsset(total, required) ==
    IF total < required THEN {0} ELSE 0..total

RandomStartTimes(total, required) ==
    IF total < required THEN {0} ELSE 0..(total - required)

(***************************************************************************)
(* The filter graph.  A stage is its kind and its integer arguments.       *)
(***************************************************************************)
Stage(kind, args) == [kind |-> kind, args |-> args]

\* int(audio_duration), line 217
IntSeconds(d) == d \div TicksPerSecond

\* line 207
InputStage(ss) == Stage("input", <<ss>>)
\* lines 212-213
ScaleStage == Stage("scale", <<1080, -1>>)
PadStage == Stage("pad", <<1080, 1920>>)
\* line 217: loop=0, size=str(int(audio_duration))
LoopStage(duration) == Stage("loop", <<0, IntSeconds(duration)>>)
\* line 218
TrimStage(duration) == Stage("trim", <<duration>>)
\* A faulty variant of OverlayStage: the fade-out starts at the caption's end.
OverlayStage_FadeOutAtEnd(path, caption) ==
    Stage("overlay", <<path, caption.start, caption.end, caption.start, caption.end>>)

\* lines 232-237: image, fade-in start, fade-out start, enable window
OverlayStage(path, caption) ==
    Stage("overlay", <<path, caption.start, caption.end - FadeDuration,
                       caption.start, caption.end>>)

\* lines 210-214, in the order the stages are chained
ScalePadStages == <<ScaleStage, PadStage>>

\* A faulty variant of LoopTrimStages: the stream is trimmed before it is looped.
LoopTrimStages_TrimFirst(duration) == <<TrimStage(duration), LoopStage(duration)>>

\* lines 217-218, in the order the stages are chained
LoopTrimStages(duration) == <<LoopStage(duration), TrimStage(duration)>>

\* The kinds of a sequence of stages, in order.
Kinds(stages) == [k \in 1..Len(stages) |-> stages[k].kind]

\* line 144: caption_{int(time.time()*1000)}.png is one name per millisecond
CaptionPath(ms) == ms

\* line 243: final_{int(time.time())}.mp4
OutputPath(ms) == ms \div 1000

\* Frames leaving a stage that n frames enter.  The loop filter repeats the
\* first `size` frames `loop` times after the input; trim cuts at a duration;
\* scale, pad and an overlay of a still image keep the main stream's length.
FramesAfter(stage, n) ==
    CASE stage.kind = "input" -> Max(n - stage.args[1] * FramesPerTick, 0)
      [] stage.kind = "loop"  -> n + stage.args[1] * Min(stage.args[2], n)
      [] stage.kind = "trim"  -> Min(n, stage.args[1] * FramesPerTick)
      [] OTHER -> n

RECURSIVE StreamFrames(_, _)
StreamFrames(graph, n) ==
    IF graph = <<>> THEN n
    ELSE StreamFrames(Tail(graph), FramesAfter(Head(graph), n))

\* A faulty variant of Reraise: the handler raises a new exception whose
\* message puts a context prefix before the caught one.
Reraise_Wrapped(e) == "Error composing video: " \o e

\* lines 263-265: the handler prints and re-raises the exception it caught
Reraise(e) == e

(***************************************************************************)
(* create_tiktok_video, lines 162-265, one action per step of the body.    *)
(***************************************************************************)
Init ==
    /\ pc = "check"
    /\ video_exists \in BOOLEAN
    /\ text \in Texts
    /\ segments = <<>>
    /\ sentences = <<>>
    /\ captions = <<>>
    /\ audio_duration = -1
    /\ total_duration = -1
    /\ start_time = -1
    /\ video = <<>>
    /\ caption_files = <<>>
    /\ clock = 0
    /\ log = <<>>
    /\ exc = ""
    /\ result = <<>>
    /\ NoRender
    /\ NoService

\* A faulty variant of Raise: the exception is swallowed and the step runs again.
Raise_Retry(e) ==
    /\ pc' = pc
    /\ exc' = exc

\* An exception raised inside the try block reaches the handler at line 263,
\* which re-raises it: the job ends.
Raise(e) ==
    /\ pc' = "raised"
    /\ exc' = Reraise(e)

\* A faulty variant of CheckVideoExists: the path is returned without the test.
CheckVideoExists_NoTest ==
    /\ pc = "check"
    /\ log' = Append(log, "check_video_exists")
    /\ pc' = "transcribe"
    /\ UNCHANGED <<video_exists, text, segments, sentences, captions, audio_duration,
                   total_duration, start_time, video, caption_files, clock, exc, result>>
    /\ UNCHANGED renderVars
    /\ UNCHANGED serviceVars

\* line 166 and check_video_exists, lines 40-48
CheckVideoExists ==
    /\ pc = "check"
    /\ log' = Append(log, "check_video_exists")
    /\ IF video_exists
       THEN pc' = "transcribe" /\ exc' = exc
       ELSE Raise("Subway Surfers video not found")
    /\ UNCHANGED <<video_exists, text, segments, sentences, captions, audio_duration,
                   total_duration, start_time, video, caption_files, clock, result>>
    /\ UNCHANGED renderVars
    /\ UNCHANGED serviceVars

\* line 169 and generate_captions, lines 50-54
Transcribe ==
    /\ pc = "transcribe"
    /\ \E segs \in SegmentSeqs : segments' = segs
    /\ log' = Append(log, "transcribe")
    /\ pc' = "split"
    /\ UNCHANGED <<video_exists, text, sentences, captions, audio_duration,
                   total_duration, start_time, video, caption_files, clock, exc, result>>
    /\ UNCHANGED renderVars
    /\ UNCHANGED serviceVars

TranscribeFails ==
    /\ pc = "transcribe"
    /\ log' = Append(log, "transcribe")
    /\ Raise("transcription failed")
    /\ UNCHANGED <<video_exists, text, segments, sentences, captions, audio_duration,
                   total_duration, start_time, video, caption_files, clock, result>>
    /\ UNCHANGED renderVars
    /\ UNCHANGED serviceVars

\* lines 172-177
SplitSentences ==
    /\ pc = "split"
    /\ text' = NormalizeSpacing(text)
    /\ sentences' = SplitSentencesOf(text')
    /\ pc' = IF sentences' = <<>> THEN "probe_audio" ELSE "align"
    /\ UNCHANGED <<video_exists, segments, captions, audio_duration, total_duration,
                   start_time, video, caption_files, clock, log, exc, result>>
    /\ UNCHANGED renderVars
    /\ UNCHANGED serviceVars

\* lines 181-196, one iteration
AlignStep ==
    /\ pc = "align"
    /\ captions' = Append(captions, NextCaption(sentences, segments, captions))
    /\ pc' = IF Len(captions') = Len(sentences) THEN "probe_audio" ELSE "align"
    /\ UNCHANGED <<video_exists, text, segments, sentences, audio_duration,
                   total_duration, start_time, video, caption_files, clock, log, exc,
                   result>>
    /\ UNCHANGED renderVars
    /\ UNCHANGED serviceVars

\* lines 199-200
ProbeAudio ==
    /\ pc = "probe_audio"
    /\ \E d \in AudioDurations : audio_duration' = d
    /\ log' = Append(log, "probe_audio")
    /\ pc' = "start_time"
    /\ UNCHANGED <<video_exists, text, segments, sentences, captions, total_duration,
                   start_time, video, caption_files, clock, exc, result>>
    /\ UNCHANGED renderVars
    /\ UNCHANGED serviceVars

ProbeAudioFails ==
    /\ pc = "probe_audio"
    /\ log' = Append(log, "probe_audio")
    /\ Raise("audio probe failed")
    /\ UNCHANGED <<video_exists, text, segments, sentences, captions, audio_duration,
                   total_duration, start_time, video, caption_files, clock, result>>
    /\ UNCHANGED renderVars
    /\ UNCHANGED serviceVars

\* A faulty variant of GetRandomStartTime: the captions are moved by the
\* offset drawn for the background clip.
GetRandomStartTime_ShiftsCaptions ==
    /\ pc = "start_time"
    /\ \E total \in AssetDurations(audio_duration) :
         /\ total_duration' = total
         /\ \E o \in RandomStartTimes(total, audio_duration) : start_time' = o
    /\ captions' = [k \in 1..Len(captions) |->
                       [captions[k] EXCEPT !.start = @ + start_time', !.end = @ + start_time']]
    /\ log' = Append(log, "probe_video")
    /\ pc' = "input"
    /\ UNCHANGED <<video_exists, text, segments, sentences, audio_duration,
                   video, caption_files, clock, exc, result>>
    /\ UNCHANGED renderVars
    /\ UNCHANGED serviceVars

\* line 203 and get_random_start_time, lines 33-38
GetRandomStartTime ==
    /\ pc = "start_time"
    /\ \E total \in AssetDurations(audio_duration) :
         /\ total_duration' = total
         /\ \E o \in RandomStartTimes(total, audio_duration) : start_time' = o
    /\ log' = Append(log, "probe_video")
    /\ pc' = "input"
    /\ UNCHANGED <<video_exists, text, segments, sentences, captions, audio_duration,
                   video, caption_files, clock, exc, result>>
    /\ UNCHANGED renderVars
    /\ UNCHANGED serviceVars

\* get_video_duration, lines 27-31, raising
ProbeVideoFails ==
    /\ pc = "start_time"
    /\ log' = Append(log, "probe_video")
    /\ Raise("video probe failed")
    /\ UNCHANGED <<video_exists, text, segments, sentences, captions, audio_duration,
                   total_duration, start_time, video, caption_files, clock, result>>
    /\ UNCHANGED renderVars
    /\ UNCHANGED serviceVars

\* line 207
PrepareInput ==
    /\ pc = "input"
    /\ video' = <<InputStage(start_time)>>
    /\ log' = log \o Kinds(video')
    /\ pc' = "scale_pad"
    /\ UNCHANGED <<video_exists, text, segments, sentences, captions, audio_duration,
                   total_duration, start_time, caption_files, clock, exc, result>>
    /\ UNCHANGED renderVars
    /\ UNCHANGED serviceVars

\* lines 210-214
ScaleAndPad ==
    /\ pc = "scale_pad"
    /\ video' = video \o ScalePadStages
    /\ log' = log \o Kinds(ScalePadStages)
    /\ pc' = "loop_trim"
    /\ UNCHANGED <<video_exists, text, segments, sentences, captions, audio_duration,
                   total_duration, start_time, caption_files, clock, exc, result>>
    /\ UNCHANGED renderVars
    /\ UNCHANGED serviceVars

\* lines 217-218
LoopAndTrim ==
    /\ pc = "loop_trim"
    /\ video' = video \o LoopTrimStages(audio_duration)
    /\ log' = log \o Kinds(LoopTrimStages(audio_duration))
    /\ pc' = IF captions = <<>> THEN "audio" ELSE "captions"
    /\ UNCHANGED <<video_exists, text, segments, sentences, captions, audio_duration,
                   total_duration, start_time, caption_files, clock, exc, result>>
    /\ UNCHANGED renderVars
    /\ UNCHANGED serviceVars

\* A faulty variant of CaptionAt: the captions are taken last to first.
CaptionAt_Reversed(caps, k) == caps[Len(caps) + 1 - k]

\* The caption the loop at line 223 handles in its iteration number k (from 1).
CaptionAt(caps, k) == caps[k]

\* A faulty variant of AddCaptionOverlay: the overlay stage is created
\* before the image it reads is rendered.
AddCaptionOverlay_OverlayFirst ==
    /\ pc = "captions"
    /\ \E now \in {clock, clock + 1} :
         LET segment == CaptionAt(captions, Len(caption_files) + 1)
             caption_path == CaptionPath(now)
         IN  /\ clock' = now
             /\ caption_files' = Append(caption_files, caption_path)
             /\ video' = Append(video, OverlayStage(caption_path, segment))
    /\ log' = log \o <<"overlay", "render">>
    /\ pc' = IF Len(caption_files') = Len(captions) THEN "audio" ELSE "captions"
    /\ UNCHANGED <<video_exists, text, segments, sentences, captions, audio_duration,
                   total_duration, start_time, exc, result>>
    /\ UNCHANGED renderVars
    /\ UNCHANGED serviceVars

\* lines 223-237, one iteration: render the image, then overlay it
AddCaptionOverlay ==
    /\ pc = "captions"
    /\ \E now \in {clock, clock + 1} :
         LET segment == CaptionAt(captions, Len(caption_files) + 1)
             caption_path == CaptionPath(now)
         IN  /\ clock' = now
             /\ caption_files' = Append(caption_files, caption_path)
             /\ video' = Append(video, OverlayStage(caption_path, segment))
    /\ log' = log \o <<"render", "overlay">>
    /\ pc' = IF Len(caption_files') = Len(captions) THEN "audio" ELSE "captions"
    /\ UNCHANGED <<video_exists, text, segments, sentences, captions, audio_duration,
                   total_duration, start_time, exc, result>>
    /\ UNCHANGED renderVars
    /\ UNCHANGED serviceVars

\* create_caption_image, lines 56-160, raising
RenderFails ==
    /\ pc = "captions"
    /\ log' = Append(log, "render")
    /\ Raise("caption render failed")
    /\ UNCHANGED <<video_exists, text, segments, sentences, captions, audio_duration,
                   total_duration, start_time, video, caption_files, clock, result>>
    /\ UNCHANGED renderVars
    /\ UNCHANGED serviceVars

\* lines 240-249: the audio input and the output node
BuildOutput ==
    /\ pc = "audio"
    /\ log' = log \o <<"audio", "output">>
    /\ pc' = "run"
    /\ UNCHANGED <<video_exists, text, segments, sentences, captions, audio_duration,
                   total_duration, start_time, video, caption_files, clock, exc, result>>
    /\ UNCHANGED renderVars
    /\ UNCHANGED serviceVars

\* lines 253-261: the encoder runs and the output path is returned
RunEncoder ==
    /\ pc = "run"
    /\ log' = Append(log, "encode")
    /\ result' = <<OutputPath(clock)>>
    /\ pc' = "done"
    /\ UNCHANGED <<video_exists, text, segments, sentences, captions, audio_duration,
                   total_duration, start_time, video, caption_files, clock, exc>>
    /\ UNCHANGED renderVars
    /\ UNCHANGED serviceVars

EncoderFails ==
    /\ pc = "run"
    /\ log' = Append(log, "encode")
    /\ Raise("ffmpeg error")
    /\ UNCHANGED <<video_exists, text, segments, sentences, captions, audio_duration,
                   total_duration, start_time, video, caption_files, clock, result>>
    /\ UNCHANGED renderVars
    /\ UNCHANGED serviceVars

Next ==
    \/ CheckVideoExists
    \/ Transcribe
    \/ TranscribeFails
    \/ SplitSentences
    \/ AlignStep
    \/ ProbeAudio
    \/ ProbeAudioFails
    \/ GetRandomStartTime
    \/ ProbeVideoFails
    \/ PrepareInput
    \/ ScaleAndPad
    \/ LoopAndTrim
    \/ AddCaptionOverlay
    \/ RenderFails
    \/ BuildOutput
    \/ RunEncoder
    \/ EncoderFails

Spec == Init /\ [][Next]_vars

(***************************************************************************)
(* The sentence splitter alone, lines 172-177: the job stands at line 172  *)
(* with any text over letters, white space, the three terminators and a    *)
(* comma.                                                                  *)
(***************************************************************************)
SplitAlphabet == {"a", "b", " ", ".", "!", "?", ","}
SplitTexts == UNION {[1..n -> SplitAlphabet] : n \in 0..MaxSplitLen}

SplitInit ==
    /\ pc = "split"
    /\ video_exists = TRUE
    /\ text \in SplitTexts
    /\ segments = <<>>
    /\ sentences = <<>>
    /\ captions = <<>>
    /\ audio_duration = -1
    /\ total_duration = -1
    /\ start_time = -1
    /\ video = <<>>
    /\ caption_files = <<>>
    /\ clock = 0
    /\ log = <<"check_video_exists", "transcribe">>
    /\ exc = ""
    /\ result = <<>>
    /\ NoRender
    /\ NoService

SplitNext == SplitSentences

SplitSpec == SplitInit /\ [][SplitNext]_vars

(***************************************************************************)
(* create_caption_image, lines 56-160, on its own: one render of one       *)
(* caption text on a canvas of any width, one action per step of the body. *)
(* Lengths are in pixels and font sizes in points, as in the code.  The    *)
(* height parameter only places the text (line 114) and is left out.       *)
(***************************************************************************)
MaxWords == 3

LineBudget == 30
InitialFontSize == 120
MinFontSize == 60
Margin == 100

\* int(a / b) for integers a and b > 0: Python's int() drops the fraction,
\* rounding toward zero.
Trunc(a, b) == IF a >= 0 THEN a \div b ELSE -((-a) \div b)

\* A faulty variant of FlushLine: the current line is added even when empty.
FlushLine_Unconditional(ls, current_line) == Append(ls, JoinSpace(current_line))

\* lines 73-74 and 79-80: the current line is added if it exists
FlushLine(ls, current_line) ==
    IF current_line # <<>> THEN Append(ls, JoinSpace(current_line)) ELSE ls

\* lines 68-80: the loop over the words and the final flush
RECURSIVE WrapLoop(_, _, _, _)
WrapLoop(words, ls, current_line, current_length) ==
    IF words = <<>> THEN FlushLine(ls, current_line)
    ELSE LET word == Head(words)
         IN  IF current_length + Len(word) + 1 <= LineBudget
             THEN WrapLoop(Tail(words), ls, Append(current_line, word),
                           current_length + Len(word) + 1)
             ELSE WrapLoop(Tail(words), FlushLine(ls, current_line), <<word>>, Len(word))

\* lines 63-80
WrapLines(t) == WrapLoop(Words(t), <<>>, <<>>, 0)

\* lines 101-102: new_size = int(font_size * scale_factor)
NewSize(w, box_width) == Trunc(InitialFontSize * (w - Margin), box_width)

\* A faulty variant of FittedSize: the scaled size is used as it is.
FittedSize_NoMinimum(w, box_width) == NewSize(w, box_width)

\* line 103: font_size = max(new_size, min_font_size)
FittedSize(w, box_width) == Max(NewSize(w, box_width), MinFontSize)

\* A faulty variant of LoadedFont: no font is there when Arial is not found.
LoadedFont_NoFallback(found, size) == IF found THEN <<"Arial", size>> ELSE <<>>

\* lines 88-92 and 104-107: Arial at the size asked for, or the default font
LoadedFont(found, size) == IF found THEN <<"Arial", size>> ELSE <<"default">>

\* Caption texts: up to MaxWords words, word number k made of the k-th
\* letter so that the words can be told apart, their lengths around the
\* line budget and its half, separated by one blank or by two.
WordLengths == {1, 14, 15, 30, 31}
Letters == <<"a", "b", "c", "d", "e">>
WordOf(k, n) == [i \in 1..n |-> Letters[k]]

RECURSIVE JoinWith(_, _)
JoinWith(sep, words) ==
    IF words = <<>> THEN <<>>
    ELSE IF Len(words) = 1 THEN words[1]
    ELSE words[1] \o sep \o JoinWith(sep, Tail(words))

CaptionTexts ==
    { JoinWith(sep, [k \in 1..Len(ns) |-> WordOf(k, ns[k])]) :
        sep \in {<<" ">>, <<" ", " ">>},
        ns \in UNION {[1..n -> WordLengths] : n \in 0..MaxWords} }

\* Canvas widths: the 1080 of line 228, the margin itself, and less than it.
CanvasWidths == {50, Margin, 1080}

\* Widths the text box can measure (lines 95-96): what the font's metrics
\* give is outside the program; a text without a line has a box of width 0.
BoxWidths == {980, 981, 1400, 1961}
MeasuredWidths(ls) == IF ls = <<>> THEN {0} ELSE BoxWidths

RenderInit ==
    /\ pc = "wrap"
    /\ video_exists = TRUE
    /\ text = <<>>
    /\ segments = <<>>
    /\ sentences = <<>>
    /\ captions = <<>>
    /\ audio_duration = -1
    /\ total_duration = -1
    /\ start_time = -1
    /\ video = <<>>
    /\ caption_files = <<>>
    /\ clock = 0
    /\ log = <<>>
    /\ exc = ""
    /\ result = <<>>
    /\ caption_text \in CaptionTexts
    /\ width \in CanvasWidths
    /\ lines = <<>>
    /\ font = <<>>
    /\ font_size = 0
    /\ text_width = -1
    /\ temp_path = <<>>
    /\ NoService

jobVars == <<video_exists, text, segments, sentences, captions, audio_duration,
             total_duration, start_time, video, caption_files, log, result>>

\* lines 62-83
WrapText ==
    /\ pc = "wrap"
    /\ lines' = WrapLines(caption_text)
    /\ pc' = "load_font"
    /\ UNCHANGED <<caption_text, width, font, font_size, text_width, temp_path, clock, exc>>
    /\ UNCHANGED jobVars
    /\ UNCHANGED serviceVars

\* lines 85-92
LoadFont ==
    /\ pc = "load_font"
    /\ font_size' = InitialFontSize
    /\ \E found \in BOOLEAN : font' = LoadedFont(found, font_size')
    /\ pc' = "measure"
    /\ UNCHANGED <<caption_text, width, lines, text_width, temp_path, clock, exc>>
    /\ UNCHANGED jobVars
    /\ UNCHANGED serviceVars

\* lines 95-97
MeasureText ==
    /\ pc = "measure"
    /\ text_width' \in MeasuredWidths(lines)
    /\ pc' = "fit"
    /\ UNCHANGED <<caption_text, width, lines, font, font_size, temp_path, clock, exc>>
    /\ UNCHANGED jobVars
    /\ UNCHANGED serviceVars

\* line 100, condition false: the font is kept
KeepFont ==
    /\ pc = "fit"
    /\ ~(text_width > width - Margin)
    /\ pc' = "save"
    /\ UNCHANGED <<caption_text, width, lines, font, font_size, text_width, temp_path,
                   clock, exc>>
    /\ UNCHANGED jobVars
    /\ UNCHANGED serviceVars

\* lines 100-110: the font is scaled down, loaded again, the box measured again
FitFont ==
    /\ pc = "fit"
    /\ text_width > width - Margin
    /\ text_width # 0
    /\ font_size' = FittedSize(width, text_width)
    /\ \E found \in BOOLEAN : font' = LoadedFont(found, font_size')
    /\ text_width' \in MeasuredWidths(lines)
    /\ pc' = "save"
    /\ UNCHANGED <<caption_text, width, lines, temp_path, clock, exc>>
    /\ UNCHANGED jobVars
    /\ UNCHANGED serviceVars

\* line 101 with a box of width 0 on a canvas narrower than the margin
FitFontFails ==
    /\ pc = "fit"
    /\ text_width > width - Margin
    /\ text_width = 0
    /\ pc' = "raised"
    /\ exc' = "float division by zero"
    /\ UNCHANGED <<caption_text, width, lines, font, font_size, text_width, temp_path, clock>>
    /\ UNCHANGED jobVars
    /\ UNCHANGED serviceVars

\* lines 112-160: the image is drawn, saved under the clock's name, returned
SaveImage ==
    /\ pc = "save"
    /\ \E now \in {clock, clock + 1} :
         /\ clock' = now
         /\ temp_path' = <<CaptionPath(now)>>
    /\ pc' = "rendered"
    /\ UNCHANGED <<caption_text, width, lines, font, font_size, text_width, exc>>
    /\ UNCHANGED jobVars
    /\ UNCHANGED serviceVars

RenderNext ==
    \/ WrapText
    \/ LoadFont
    \/ MeasureText
    \/ KeepFont
    \/ FitFont
    \/ FitFontFails
    \/ SaveImage

RenderSpec == RenderInit /\ [][RenderNext]_vars

(***************************************************************************)
(* NewsFetcher.fetch_articles and _rank_articles, news_fetcher.py lines    *)
(* 32-59 and 190-280.  An article is known by its name; the feeds and the  *)
(* ranking service are the environment.                                    *)
(***************************************************************************)
MaxFetched == 3
MaxResponseLen == 4

Digits == {"0", "1", "2", "3", "4", "5", "6", "7", "8", "9"}
DigitValue(c) ==
    CASE c = "0" -> 0 [] c = "1" -> 1 [] c = "2" -> 2 [] c = "3" -> 3 [] c = "4" -> 4
      [] c = "5" -> 5 [] c = "6" -> 6 [] c = "7" -> 7 [] c = "8" -> 8 [] c = "9" -> 9

\* int(s) for a string of digits
RECURSIVE IntOf(_)
IntOf(s) ==
    IF s = <<>> THEN 0
    ELSE IntOf(SubSeq(s, 1, Len(s) - 1)) * 10 + DigitValue(s[Len(s)])

\* s.split(sep) for a one-character separator: the pieces between the
\* separators, the empty ones included
RECURSIVE SplitOn(_, _, _, _)
SplitOn(sep, s, cur, acc) ==
    IF s = <<>> THEN Append(acc, cur)
    ELSE IF Head(s) = sep
         THEN SplitOn(sep, Tail(s), <<>>, Append(acc, cur))
         ELSE SplitOn(sep, Tail(s), Append(cur, Head(s)), acc)

\* line 251: only the digits and the commas are kept
CleanIndices(t) == SelectSeq(t, LAMBDA c : c \in Digits \cup {","})

\* line 257: the numbers between the commas, empty pieces skipped
RankedIndices(cleaned) ==
    LET pieces == SelectSeq(SplitOn(",", cleaned, <<>>, <<>>), LAMBDA p : Strip(p) # <<>>)
    IN  [k \in 1..Len(pieces) |-> IntOf(Strip(pieces[k]))]

\* line 260: the indices that name an article
ValidIndices(indices, n) == SelectSeq(indices, LAMBDA idx : 0 <= idx /\ idx < n)

\* line 265: articles[idx] for each valid index (Python indices are 0-based)
RankedFirst(arts, valid) == [k \in 1..Len(valid) |-> arts[valid[k] + 1]]

\* line 268: the indices no valid index names
UnrankedIndices(n, valid) == (0..(n - 1)) \ {valid[k] : k \in 1..Len(valid)}

\* The orders in which a set can be iterated (line 269 iterates a set,
\* whose order the language leaves open).
Orderings(S) ==
    {o \in [1..Cardinality(S) -> S] : \A i, j \in 1..Cardinality(S) : i # j => o[i] # o[j]}

\* ranked_articles[:max_articles]
SliceTo(seq, m) ==
    IF m >= 0 THEN SubSeq(seq, 1, Min(m, Len(seq)))
    ELSE SubSeq(seq, 1, Max(Len(seq) + m, 0))

\* datetime.strptime(date, '%Y-%m-%d') succeeds: a year of four digits, a
\* month from 1 to 12 and a day of that month, of one or two digits each
\* (29 February is taken as a day of every year).
DaysIn(month) ==
    IF month = 2 THEN 29 ELSE IF month \in {4, 6, 9, 11} THEN 30 ELSE 31

AllDigits(s) == s # <<>> /\ \A k \in 1..Len(s) : s[k] \in Digits

WellFormedDate(d) ==
    LET parts == SplitOn("-", d, <<>>, <<>>)
    IN  /\ Len(parts) = 3
        /\ \A k \in 1..3 : AllDigits(parts[k])
        /\ Len(parts[1]) = 4
        /\ Len(parts[2]) <= 2 /\ IntOf(parts[2]) \in 1..12
        /\ Len(parts[3]) <= 2 /\ IntOf(parts[3]) \in 1..DaysIn(IntOf(parts[2]))

\* Inputs: dates that parse and dates that do not; the setting of
\* MAX_ARTICLES, which line 10 reads as any integer; the articles the feeds hold for the date; the
\* texts the ranking service can answer.
DateStrings ==
    { <<"2", "0", "2", "4", "-", "0", "1", "-", "1", "5">>,
      <<"2", "0", "2", "4", "-", "1", "3", "-", "0", "1">>,
      <<"i", "n", "v", "a", "l", "i", "d", "-", "d", "a", "t", "e">> }
MaxArticleSettings == {-1, 0, 1, 2, 10}
ArticleNames == <<"A0", "A1", "A2", "A3">>
ArticleLists == {SubSeq(ArticleNames, 1, n) : n \in 0..MaxFetched}
ResponseAlphabet == {"0", "1", "2", ",", "-"}
ResponseTexts == UNION {[1..n -> ResponseAlphabet] : n \in 0..MaxResponseLen}

NewsInit ==
    /\ news_pc = "parse_date"
    /\ date \in DateStrings
    /\ max_articles \in MaxArticleSettings
    /\ articles = <<>>
    /\ ranking_response = <<>>
    /\ ranked = <<>>
    /\ news_result = <<>>
    /\ news_exc = ""
    /\ NoJob /\ NoDetect /\ NoStory /\ NoPoster /\ NoAvatar

\* lines 279-280: _rank_articles wraps what it raises
RankingError(message) == "Error ranking articles: " \o message

\* A faulty variant of FetchError: the exception is passed on as it is.
FetchError_Unwrapped(message) == message

\* lines 58-59: fetch_articles wraps whatever is raised inside it
FetchError(message) == "Error fetching news articles: " \o message

NewsRaise(message) ==
    /\ news_pc' = "raised"
    /\ news_exc' = FetchError(message)

\* line 44
ParseDate ==
    /\ news_pc = "parse_date"
    /\ WellFormedDate(date)
    /\ news_pc' = "fetch_rss"
    /\ UNCHANGED <<date, max_articles, articles, ranking_response, ranked, news_result,
                   news_exc>>
    /\ UNCHANGED otherThanNews

ParseDateFails ==
    /\ news_pc = "parse_date"
    /\ ~WellFormedDate(date)
    /\ NewsRaise("time data does not match format '%Y-%m-%d'")
    /\ UNCHANGED <<date, max_articles, articles, ranking_response, ranked, news_result>>
    /\ UNCHANGED otherThanNews

\* line 47, with articles for the date
FetchFromRss ==
    /\ news_pc = "fetch_rss"
    /\ \E found \in ArticleLists :
         /\ found # <<>>
         /\ articles' = found
    /\ news_pc' = "rank"
    /\ UNCHANGED <<date, max_articles, ranking_response, ranked, news_result, news_exc>>
    /\ UNCHANGED otherThanNews

\* lines 47-50, with no article for the date
NoArticlesFound ==
    /\ news_pc = "fetch_rss"
    /\ articles' = <<>>
    /\ NewsRaise("No articles found for date")
    /\ UNCHANGED <<date, max_articles, ranking_response, ranked, news_result>>
    /\ UNCHANGED otherThanNews

\* lines 221-248: the service answers with a candidate text
RankRequest ==
    /\ news_pc = "rank"
    /\ \E t \in ResponseTexts : ranking_response' = Strip(t)
    /\ news_pc' = "parse_response"
    /\ UNCHANGED <<date, max_articles, articles, ranked, news_result, news_exc>>
    /\ UNCHANGED otherThanNews

\* lines 221-243 and 277-278: the request fails
RankRequestFails ==
    /\ news_pc = "rank"
    /\ NewsRaise(RankingError("API request failed - connection error"))
    /\ UNCHANGED <<date, max_articles, articles, ranking_response, ranked, news_result>>
    /\ UNCHANGED otherThanNews

\* lines 247 and 274-275: the answer holds no candidate
RankNoCandidates ==
    /\ news_pc = "rank"
    /\ NewsRaise(RankingError("No content generated in the response"))
    /\ UNCHANGED <<date, max_articles, articles, ranking_response, ranked, news_result>>
    /\ UNCHANGED otherThanNews

\* lines 251-271: the answer is parsed and the articles reordered
ParseRanking ==
    /\ news_pc = "parse_response"
    /\ CleanIndices(ranking_response) # <<>>
    /\ LET valid == ValidIndices(RankedIndices(CleanIndices(ranking_response)),
                                 Len(articles))
       IN  /\ valid # <<>>
           /\ \E order \in Orderings(UnrankedIndices(Len(articles), valid)) :
                  ranked' = RankedFirst(articles, valid)
                                \o [k \in 1..Len(order) |-> articles[order[k] + 1]]
    /\ news_pc' = "ranked"
    /\ UNCHANGED <<date, max_articles, articles, ranking_response, news_result, news_exc>>
    /\ UNCHANGED otherThanNews

\* lines 252-253: nothing is left of the answer
NoIndicesFound ==
    /\ news_pc = "parse_response"
    /\ CleanIndices(ranking_response) = <<>>
    /\ NewsRaise(RankingError("No valid indices found in API response"))
    /\ UNCHANGED <<date, max_articles, articles, ranking_response, ranked, news_result>>
    /\ UNCHANGED otherThanNews

\* lines 261-262 and 272-273: no index names an article
NoValidIndices ==
    /\ news_pc = "parse_response"
    /\ CleanIndices(ranking_response) # <<>>
    /\ ValidIndices(RankedIndices(CleanIndices(ranking_response)), Len(articles)) = <<>>
    /\ NewsRaise(RankingError("Failed to parse indices: No valid article indices found"))
    /\ UNCHANGED <<date, max_articles, articles, ranking_response, ranked, news_result>>
    /\ UNCHANGED otherThanNews

\* line 56
ReturnTopArticles ==
    /\ news_pc = "ranked"
    /\ news_result' = <<SliceTo(ranked, max_articles)>>
    /\ news_pc' = "returned"
    /\ UNCHANGED <<date, max_articles, articles, ranking_response, ranked, news_exc>>
    /\ UNCHANGED otherThanNews

NewsNext ==
    \/ ParseDate
    \/ ParseDateFails
    \/ FetchFromRss
    \/ NoArticlesFound
    \/ RankRequest
    \/ RankRequestFails
    \/ RankNoCandidates
    \/ ParseRanking
    \/ NoIndicesFound
    \/ NoValidIndices
    \/ ReturnTopArticles

NewsSpec == NewsInit /\ [][NewsNext]_vars

(***************************************************************************)
(* NewsFetcher._detect_category, news_fetcher.py lines 160-186.            *)
(***************************************************************************)
MaxFragments == 2

LowerCase == <<"a", "b", "c", "d", "e", "f", "g", "h", "i", "j", "k", "l", "m", "n", "o", "p", "q", "r", "s", "t", "u", "v", "w", "x", "y", "z">>
UpperCase == <<"A", "B", "C", "D", "E", "F", "G", "H", "I", "J", "K", "L", "M", "N", "O", "P", "Q", "R", "S", "T", "U", "V", "W", "X", "Y", "Z">>

\* A faulty variant of LowerChar: the character is left as it is.
LowerChar_AsIs(c) == c

\* str.lower(), one character
LowerChar(c) ==
    IF \E k \in 1..Len(UpperCase) : UpperCase[k] = c
    THEN LowerCase[CHOOSE k \in 1..Len(UpperCase) : UpperCase[k] = c]
    ELSE c

\* str.lower()
Lower(s) == [k \in 1..Len(s) |-> LowerChar(s[k])]

\* keyword in text
Contains(s, keyword) ==
    \E i \in 1..(Len(s) - Len(keyword) + 1) : SubSeq(s, i, i + Len(keyword) - 1) = keyword

\* lines 172-178: the categories and their keywords, in the order of the dict
Categories ==
    << [name |-> "politics", keywords |->
           {<<"p", "o", "l", "i", "t", "i", "c">>,
            <<"g", "o", "v", "e", "r", "n", "m", "e", "n", "t">>,
            <<"p", "a", "r", "l", "i", "a", "m", "e", "n", "t">>,
            <<"m", "i", "n", "i", "s", "t", "e", "r">>,
            <<"e", "l", "e", "c", "t", "i", "o", "n">>}],
       [name |-> "economy", keywords |->
           {<<"e", "c", "o", "n", "o", "m">>,
            <<"b", "u", "s", "i", "n", "e", "s", "s">>,
            <<"b", "a", "n", "k">>,
            <<"f", "i", "n", "a", "n", "c", "e">>,
            <<"m", "a", "r", "k", "e", "t">>}],
       [name |-> "society", keywords |->
           {<<"h", "e", "a", "l", "t", "h">>,
            <<"e", "d", "u", "c", "a", "t", "i", "o", "n">>,
            <<"w", "o", "r", "k">>,
            <<"s", "o", "c", "i", "a", "l">>}],
       [name |-> "world", keywords |->
           {<<"w", "o", "r", "l", "d">>,
            <<"i", "n", "t", "e", "r", "n", "a", "t", "i", "o", "n", "a", "l">>,
            <<"g", "l", "o", "b", "a", "l">>,
            <<"f", "o", "r", "e", "i", "g", "n">>}],
       [name |-> "sports", keywords |->
           {<<"s", "p", "o", "r", "t">>,
            <<"f", "o", "o", "t", "b", "a", "l", "l">>,
            <<"b", "a", "s", "k", "e", "t", "b", "a", "l", "l">>,
            <<"g", "a", "m", "e">>}] >>

\* line 180: description or ''
DescriptionOrEmpty(d) == IF d = <<>> THEN <<>> ELSE d[1]

\* lines 180-186
DetectCategory(t, d) ==
    LET lowered == Lower(t \o <<" ">> \o DescriptionOrEmpty(d))
        hits == {k \in 1..Len(Categories) :
                    \E keyword \in Categories[k].keywords : Contains(lowered, keyword)}
    IN  IF hits = {} THEN "general"
        ELSE Categories[CHOOSE k \in hits : \A j \in hits : k <= j].name

\* Inputs: titles put together from up to MaxFragments pieces, written one
\* after another or with a blank between; a description that is None, or
\* one piece.
Fragments == {<<"E", "l", "e", "c", "t">>, <<"i", "o", "n">>, <<"B", "A", "N", "K">>, <<"n", "e", "t">>, <<"w", "o", "r", "k">>, <<"W", "o", "r", "l", "d">>, <<"s", "p", "o", "r", "t">>, <<"x">>}
Separators == {<<>>, <<" ">>}
RECURSIVE Titles(_)
Titles(n) ==
    IF n = 1 THEN Fragments
    ELSE Titles(n - 1) \cup {t \o sep \o f : t \in Titles(n - 1), sep \in Separators, f \in Fragments}
Descriptions == {<<>>} \cup {<<f>> : f \in Fragments}

DetectInit ==
    /\ detect_pc = "called"
    /\ title \in Titles(MaxFragments)
    /\ description \in Descriptions
    /\ category = ""
    /\ NoJob /\ NoNews /\ NoStory /\ NoPoster /\ NoAvatar

\* lines 160-186
Detect ==
    /\ detect_pc = "called"
    /\ category' = DetectCategory(title, description)
    /\ detect_pc' = "returned"
    /\ UNCHANGED <<title, description>>
    /\ UNCHANGED otherThanDetect

DetectNext == Detect

DetectSpec == DetectInit /\ [][DetectNext]_vars

(***************************************************************************)
(* StoryGenerator.generate_story, story_generator.py lines 10-106.  An     *)
(* article is the set of the fields it has; a story is its sequence of     *)
(* words (what story.split() gives), a marker being a word of its own.     *)
(***************************************************************************)
MaxStoryArticles == 2
MaxOpening == 3

RequiredMarkerCount == 3
MinStoryWords == 150
MaxStoryWords == 450

\* line 28
RequiredFields == {"title", "content", "source", "category", "published", "url"}

\* line 90
Markers ==
    {"[PAUSE]", "[EMPHASIS]", "[EXCITED]", "[SERIOUS]", "[CURIOUS]", "[SMILE]", "[THINKING]"}

\* line 30: the required fields an article lacks
MissingFields(article) == RequiredFields \ article

\* A faulty variant of ArticlesValid: only the first article is looked at.
ArticlesValid_FirstOnly(arts) == MissingFields(arts[1]) = {}

\* lines 29-32: no article lacks a required field
ArticlesValid(arts) == \A k \in 1..Len(arts) : MissingFields(arts[k]) = {}

\* line 90: marker in story, for some marker
HasMarker(story) == \E k \in 1..Len(story) : story[k] \in Markers

\* lines 93-94
WordCountOk(story) == MinStoryWords <= Len(story) /\ Len(story) <= MaxStoryWords

\* line 106: what is raised inside the try block is wrapped
StoryError(message) == "Error generating story: " \o message

\* Inputs: articles that are complete, that lack one field, that lack
\* four; stories that open with up to MaxOpening words or markers and go
\* on with plain words to a length around the two limits, or stop there.
ArticleShapes == {RequiredFields, RequiredFields \ {"url"}, {"title", "content"}}
StoryArticleLists == UNION {[1..n -> ArticleShapes] : n \in 0..MaxStoryArticles}
StoryWords == {"w", "[PAUSE]", "[EXCITED]", "[SERIOUS]"}
Openings == UNION {[1..n -> StoryWords] : n \in 0..MaxOpening}
FillerCounts == {0, MinStoryWords - 2, MaxStoryWords - 2}
StoryTexts == {o \o [k \in 1..n |-> "w"] : o \in Openings, n \in FillerCounts}

StoryInit ==
    /\ story_pc = "check"
    /\ story_articles \in StoryArticleLists
    /\ story_requests = 0
    /\ story_text = <<>>
    /\ story_result = <<>>
    /\ story_exc = ""
    /\ NoJob /\ NoNews /\ NoDetect /\ NoPoster /\ NoAvatar

\* lines 23-24
RejectEmpty ==
    /\ story_pc = "check"
    /\ story_articles = <<>>
    /\ story_pc' = "raised"
    /\ story_exc' = "No articles provided"
    /\ UNCHANGED <<story_articles, story_requests, story_text, story_result>>
    /\ UNCHANGED otherThanStory

\* lines 23-35, every article complete
ValidateArticles ==
    /\ story_pc = "check"
    /\ story_articles # <<>>
    /\ ArticlesValid(story_articles)
    /\ story_pc' = "request"
    /\ UNCHANGED <<story_articles, story_requests, story_text, story_result, story_exc>>
    /\ UNCHANGED otherThanStory

\* lines 29-32 and 105-106
RejectMissingFields ==
    /\ story_pc = "check"
    /\ story_articles # <<>>
    /\ ~ArticlesValid(story_articles)
    /\ story_pc' = "raised"
    /\ story_exc' = StoryError(StoryError("Missing required fields in article"))
    /\ UNCHANGED <<story_articles, story_requests, story_text, story_result>>
    /\ UNCHANGED otherThanStory

\* lines 68-87: the service answers with a story
StoryRequest ==
    /\ story_pc = "request"
    /\ story_requests' = story_requests + 1
    /\ \E t \in StoryTexts : story_text' = t
    /\ story_pc' = "verify"
    /\ UNCHANGED <<story_articles, story_result, story_exc>>
    /\ UNCHANGED otherThanStory

\* lines 68-82 and 101-102
StoryRequestFails ==
    /\ story_pc = "request"
    /\ story_requests' = story_requests + 1
    /\ story_pc' = "raised"
    /\ story_exc' = StoryError("API request failed - connection error")
    /\ UNCHANGED <<story_articles, story_text, story_result>>
    /\ UNCHANGED otherThanStory

\* lines 86 and 98-99, 105-106
StoryNoCandidates ==
    /\ story_pc = "request"
    /\ story_requests' = story_requests + 1
    /\ story_pc' = "raised"
    /\ story_exc' = StoryError(StoryError("No content generated in the response"))
    /\ UNCHANGED <<story_articles, story_text, story_result>>
    /\ UNCHANGED otherThanStory

\* lines 87 and 103-104: the candidate lacks a field
StoryMalformedResponse ==
    /\ story_pc = "request"
    /\ story_requests' = story_requests + 1
    /\ story_pc' = "raised"
    /\ story_exc' = StoryError("Missing required field 'content'")
    /\ UNCHANGED <<story_articles, story_text, story_result>>
    /\ UNCHANGED otherThanStory

\* lines 90-91 and 105-106
RejectNoMarkers ==
    /\ story_pc = "verify"
    /\ ~HasMarker(story_text)
    /\ story_pc' = "raised"
    /\ story_exc' = StoryError(StoryError(
                         "Generated content does not contain required emotion markers"))
    /\ UNCHANGED <<story_articles, story_requests, story_text, story_result>>
    /\ UNCHANGED otherThanStory

\* lines 93-95 and 105-106
RejectLength ==
    /\ story_pc = "verify"
    /\ HasMarker(story_text)
    /\ ~WordCountOk(story_text)
    /\ story_pc' = "raised"
    /\ story_exc' = StoryError(StoryError(
                         "Generated content length is outside target range (150-450 words)"))
    /\ UNCHANGED <<story_articles, story_requests, story_text, story_result>>
    /\ UNCHANGED otherThanStory

\* lines 90-97
ReturnStory ==
    /\ story_pc = "verify"
    /\ HasMarker(story_text)
    /\ WordCountOk(story_text)
    /\ story_result' = <<story_text>>
    /\ story_pc' = "returned"
    /\ UNCHANGED <<story_articles, story_requests, story_text, story_exc>>
    /\ UNCHANGED otherThanStory

StoryNext ==
    \/ RejectEmpty
    \/ ValidateArticles
    \/ RejectMissingFields
    \/ StoryRequest
    \/ StoryRequestFails
    \/ StoryNoCandidates
    \/ StoryMalformedResponse
    \/ RejectNoMarkers
    \/ RejectLength
    \/ ReturnStory

StorySpec == StoryInit /\ [][StoryNext]_vars

(***************************************************************************)
(* TikTokPoster.post_video, tiktok_poster.py lines 10-44.  The session     *)
(* records the calls made on self.api, in order.                           *)
(***************************************************************************)
MaxVideoIds == 3

\* line 40
PostError(message) == "Error posting to TikTok: " \o message

\* line 35
VideoUrl(response) ==
    "https://www.tiktok.com/@" \o response.author \o "/video/" \o response.video_id

\* Inputs: paths of files that can and cannot be read; answers of the
\* upload, complete or lacking a field.
VideoPaths ==
    {"output/final_1.mp4", "output/final_2.mp4", "output/final_3.mp4", "output/missing.mp4"}
Readable(path) == path # "output/missing.mp4"
VideoIds == {<<"71", "72", "73", "74">>[k] : k \in 1..MaxVideoIds}
Authors == {"news", "surfer"}
CompleteResponses == {[video_id |-> v, author |-> a] : v \in VideoIds, a \in Authors}
MalformedResponses == {[video_id |-> v] : v \in VideoIds} \cup {[author |-> a] : a \in Authors}
WellFormed(response) == DOMAIN response = {"video_id", "author"}

PosterInit ==
    /\ poster_pc = "login"
    /\ video_path \in VideoPaths
    /\ session = <<>>
    /\ poster_response = <<>>
    /\ poster_result = <<>>
    /\ poster_exc = ""
    /\ NoJob /\ NoNews /\ NoDetect /\ NoStory /\ NoAvatar

\* line 23
Login ==
    /\ poster_pc = "login"
    /\ session' = Append(session, "login")
    /\ poster_pc' = "open"
    /\ UNCHANGED <<video_path, poster_response, poster_result, poster_exc>>
    /\ UNCHANGED otherThanPoster

\* lines 23 and 39-40
LoginFails ==
    /\ poster_pc = "login"
    /\ session' = Append(session, "login")
    /\ poster_exc' = PostError("login failed")
    /\ poster_pc' = "finally"
    /\ UNCHANGED <<video_path, poster_response, poster_result>>
    /\ UNCHANGED otherThanPoster

\* line 26
OpenVideo ==
    /\ poster_pc = "open"
    /\ Readable(video_path)
    /\ poster_pc' = "upload"
    /\ UNCHANGED <<video_path, session, poster_response, poster_result, poster_exc>>
    /\ UNCHANGED otherThanPoster

\* lines 26 and 39-40
OpenVideoFails ==
    /\ poster_pc = "open"
    /\ ~Readable(video_path)
    /\ poster_exc' = PostError("No such file or directory")
    /\ poster_pc' = "finally"
    /\ UNCHANGED <<video_path, session, poster_response, poster_result>>
    /\ UNCHANGED otherThanPoster

\* lines 27-31
Upload ==
    /\ poster_pc = "upload"
    /\ session' = Append(session, "post_video")
    /\ \E r \in CompleteResponses \cup MalformedResponses : poster_response' = <<r>>
    /\ poster_pc' = "url"
    /\ UNCHANGED <<video_path, poster_result, poster_exc>>
    /\ UNCHANGED otherThanPoster

\* A faulty variant of UploadFails: the call ends without the logout.
UploadFails_NoLogout ==
    /\ poster_pc = "upload"
    /\ session' = Append(session, "post_video")
    /\ poster_exc' = PostError("upload failed")
    /\ poster_pc' = "raised"
    /\ UNCHANGED <<video_path, poster_response, poster_result>>
    /\ UNCHANGED otherThanPoster

\* lines 27-31 and 39-40
UploadFails ==
    /\ poster_pc = "upload"
    /\ session' = Append(session, "post_video")
    /\ poster_exc' = PostError("upload failed")
    /\ poster_pc' = "finally"
    /\ UNCHANGED <<video_path, poster_response, poster_result>>
    /\ UNCHANGED otherThanPoster

\* lines 34-37: the URL is put together; it is returned after the finally block
BuildUrl ==
    /\ poster_pc = "url"
    /\ WellFormed(poster_response[1])
    /\ poster_pc' = "finally"
    /\ UNCHANGED <<video_path, session, poster_response, poster_result, poster_exc>>
    /\ UNCHANGED otherThanPoster

\* lines 34-35 and 39-40: a field is missing from the answer
BuildUrlFails ==
    /\ poster_pc = "url"
    /\ ~WellFormed(poster_response[1])
    /\ poster_exc' = PostError("missing field in response")
    /\ poster_pc' = "finally"
    /\ UNCHANGED <<video_path, session, poster_response, poster_result>>
    /\ UNCHANGED otherThanPoster

\* lines 42-44, then the return of line 37 or the raise of line 40
Logout ==
    /\ poster_pc = "finally"
    /\ session' = Append(session, "logout")
    /\ IF poster_exc = ""
       THEN poster_result' = <<VideoUrl(poster_response[1])>> /\ poster_pc' = "returned"
       ELSE poster_result' = poster_result /\ poster_pc' = "raised"
    /\ UNCHANGED <<video_path, poster_response, poster_exc>>
    /\ UNCHANGED otherThanPoster

\* line 44 raising: the exception of the logout is the one the caller gets
LogoutFails ==
    /\ poster_pc = "finally"
    /\ session' = Append(session, "logout")
    /\ poster_exc' = "logout failed"
    /\ poster_pc' = "raised"
    /\ UNCHANGED <<video_path, poster_response, poster_result>>
    /\ UNCHANGED otherThanPoster

PosterNext ==
    \/ Login
    \/ LoginFails
    \/ OpenVideo
    \/ OpenVideoFails
    \/ Upload
    \/ UploadFails
    \/ BuildUrl
    \/ BuildUrlFails
    \/ Logout
    \/ LogoutFails

PosterSpec == PosterInit /\ [][PosterNext]_vars

(***************************************************************************)
(* AvatarGenerator.create_video with _generate_audio and                   *)
(* _create_talking_head, avatar_generator.py lines 32-145.  polls is the   *)
(* sequence of statuses the polling loop has read so far.                  *)
(***************************************************************************)
MaxPolls == 3

\* lines 15-30: the keys of voice_mapping and of presenter_mapping
KnownCelebrities ==
    {"Donald Trump", "Barack Obama", "Samuel L Jackson", "Male Reporter", "Female Reporter"}

\* line 56
AvatarError(message) == "Error generating avatar video: " \o message

\* line 85
AudioError(message) == "Error generating audio: " \o message

\* line 145
TalkingHeadError(message) == "Error creating talking head video: " \o message

\* line 140
ApiError == "D-ID API error: Unknown error"

\* Inputs: the celebrity asked for, the second at which a file is named,
\* the status a poll reads.
CelebrityNames == KnownCelebrities \cup {"Nobody"}
Timestamps == {"1700000000", "1700000001"}
PendingStatuses == {"created", "started"}
Statuses == PendingStatuses \cup {"done", "error"}

\* A faulty variant of AfterPoll: a talk that has started counts as done.
AfterPoll_StartedIsDone(status) ==
    IF status \in {"done", "started"} THEN "download"
    ELSE IF status = "error" THEN "raised"
    ELSE "poll"

\* lines 126, 139 and 142: where the loop goes after reading a status
AfterPoll(status) ==
    IF status = "done" THEN "download"
    ELSE IF status = "error" THEN "raised"
    ELSE "poll"

AvatarInit ==
    /\ avatar_pc = "audio"
    /\ celebrity \in CelebrityNames
    /\ audio_path = <<>>
    /\ audio_exists = FALSE
    /\ polls = <<>>
    /\ avatar_result = <<>>
    /\ avatar_exc = ""
    /\ NoJob /\ NoNews /\ NoDetect /\ NoStory /\ NoPoster

\* lines 45 and 70-83
GenerateAudio ==
    /\ avatar_pc = "audio"
    /\ celebrity \in KnownCelebrities
    /\ \E t \in Timestamps : audio_path' = <<"temp_" \o t \o ".mp3">>
    /\ audio_exists' = TRUE
    /\ avatar_pc' = "talk"
    /\ UNCHANGED <<celebrity, polls, avatar_result, avatar_exc>>
    /\ UNCHANGED otherThanAvatar

\* lines 70-85 and 55-56: no voice for the celebrity, or the speech
\* request fails; no file has been written
GenerateAudioFails ==
    /\ avatar_pc = "audio"
    /\ avatar_exc' = AvatarError(AudioError(
           IF celebrity \in KnownCelebrities THEN "speech request failed" ELSE celebrity))
    /\ avatar_pc' = "raised"
    /\ UNCHANGED <<celebrity, audio_path, audio_exists, polls, avatar_result>>
    /\ UNCHANGED otherThanAvatar

\* lines 100-117
CreateTalk ==
    /\ avatar_pc = "talk"
    /\ avatar_pc' = "poll"
    /\ UNCHANGED <<celebrity, audio_path, audio_exists, polls, avatar_result, avatar_exc>>
    /\ UNCHANGED otherThanAvatar

\* lines 100-117, 144-145 and 55-56
CreateTalkFails ==
    /\ avatar_pc = "talk"
    /\ avatar_exc' = AvatarError(TalkingHeadError("talk request failed"))
    /\ avatar_pc' = "raised"
    /\ UNCHANGED <<celebrity, audio_path, audio_exists, polls, avatar_result>>
    /\ UNCHANGED otherThanAvatar

\* lines 120-126 and 139-142; the loop itself has no limit, MaxPolls caps
\* the length of the runs explored
Poll ==
    /\ avatar_pc = "poll"
    /\ Len(polls) < MaxPolls
    /\ \E status \in Statuses :
          /\ polls' = Append(polls, status)
          /\ avatar_pc' = AfterPoll(status)
          /\ avatar_exc' = IF AfterPoll(status) = "raised"
                           THEN AvatarError(TalkingHeadError(ApiError))
                           ELSE avatar_exc
    /\ UNCHANGED <<celebrity, audio_path, audio_exists, avatar_result>>
    /\ UNCHANGED otherThanAvatar

\* lines 121-124, 144-145 and 55-56: the status request itself fails
PollFails ==
    /\ avatar_pc = "poll"
    /\ Len(polls) < MaxPolls
    /\ avatar_exc' = AvatarError(TalkingHeadError("status request failed"))
    /\ avatar_pc' = "raised"
    /\ UNCHANGED <<celebrity, audio_path, audio_exists, polls, avatar_result>>
    /\ UNCHANGED otherThanAvatar

\* lines 128-137
Download ==
    /\ avatar_pc = "download"
    /\ \E t \in Timestamps : avatar_result' = <<"avatar_" \o t \o ".mp4">>
    /\ avatar_pc' = "unlink"
    /\ UNCHANGED <<celebrity, audio_path, audio_exists, polls, avatar_exc>>
    /\ UNCHANGED otherThanAvatar

\* lines 128-137, 144-145 and 55-56
DownloadFails ==
    /\ avatar_pc = "download"
    /\ avatar_exc' = AvatarError(TalkingHeadError("download failed"))
    /\ avatar_pc' = "raised"
    /\ UNCHANGED <<celebrity, audio_path, audio_exists, polls, avatar_result>>
    /\ UNCHANGED otherThanAvatar

\* lines 51-53
UnlinkAudio ==
    /\ avatar_pc = "unlink"
    /\ audio_exists' = FALSE
    /\ avatar_pc' = "returned"
    /\ UNCHANGED <<celebrity, audio_path, polls, avatar_result, avatar_exc>>
    /\ UNCHANGED otherThanAvatar

AvatarNext ==
    \/ GenerateAudio
    \/ GenerateAudioFails
    \/ CreateTalk
    \/ CreateTalkFails
    \/ Poll
    \/ PollFails
    \/ Download
    \/ DownloadFails
    \/ UnlinkAudio

AvatarSpec == AvatarInit /\ [][AvatarNext]_vars

(***************************************************************************)
(* Properties.                                                             *)
(***************************************************************************)
InLog(e) == \E k \in 1..Len(log) : log[k] = e
Count(seq, e) == Cardinality({k \in 1..Len(seq) : seq[k] = e})

\* The loop at line 181 has ended: line 199 has been reached.
AlignerFinished == pc = "probe_audio" \/ InLog("probe_audio")

\* N sentences, M transcript segments
N == Len(sentences)
M == Len(segments)

\* C1: the aligner produces exactly one caption per sentence, caption i
\* carrying the text of sentence i, whatever the number of segments; no
\* caption exists beyond the N-th, so segments N..M-1 produce none.
C1_OneCaptionPerSentence ==
    /\ Len(captions) <= N
    /\ \A i \in 1..Len(captions) : captions[i].text = sentences[i]
    /\ AlignerFinished => Len(captions) = N

\* C1's case: more segments than sentences, alignment finished.
C1_Witness == AlignerFinished /\ M > N /\ N >= 1

\* C2: a caption whose index is below M borrows start and end of the segment
\* with the same index.
C2_ExactBorrow ==
    \A i \in 1..Len(captions) :
        i <= M => /\ captions[i].start = segments[i].start
                  /\ captions[i].end = segments[i].end

\* C2's case: borrowed captions followed by an estimated one.
C2_Witness == AlignerFinished /\ M >= 2 /\ N > M

\* C3 as stated: every caption at index i >= M has a predecessor, starts at
\* the predecessor's end and ends 3.0 s after it.
C3_ChainFromPredecessor ==
    \A i \in 1..Len(captions) :
        i > M => /\ i - 1 \in DOMAIN captions
                 /\ captions[i].start = captions[i - 1].end
                 /\ captions[i].end = captions[i - 1].end + DefaultDuration

\* C3 amended: a caption at index i >= M that has a predecessor starts at the
\* predecessor's end and ends 3.0 s after it; with M = 0 the first caption has
\* none and is the window from 0 to 3.0 s.
C3_ChainAnchoredAtZero ==
    \A i \in 1..Len(captions) :
        i > M => IF i = 1
                 THEN captions[i].start = 0 /\ captions[i].end = DefaultDuration
                 ELSE /\ captions[i].start = captions[i - 1].end
                      /\ captions[i].end = captions[i - 1].end + DefaultDuration

\* C3's case: no segment at all and a chain of three estimated captions.
C3_Witness == AlignerFinished /\ M = 0 /\ N >= 3

\* C4: when every segment has end > start, every caption has end > start.
SegmentsNonEmpty == \A k \in 1..M : segments[k].end > segments[k].start

C4_EndAfterStart ==
    SegmentsNonEmpty => \A i \in 1..Len(captions) : captions[i].end > captions[i].start

\* C4's case: non-empty segments, borrowed and estimated captions.
C4_Witness == AlignerFinished /\ M >= 1 /\ SegmentsNonEmpty /\ N > M

\* C5: when segment starts are non-decreasing and every segment has
\* end > start, caption starts are non-decreasing.
SegmentsOrdered == \A k \in 2..M : segments[k - 1].start <= segments[k].start

C5_StartsNonDecreasing ==
    (SegmentsOrdered /\ SegmentsNonEmpty) =>
        \A i \in 2..Len(captions) : captions[i].start >= captions[i - 1].start

\* C5's case: two ordered segments, the second starting after the first, then
\* an estimated caption.
C5_Witness ==
    /\ AlignerFinished /\ SegmentsOrdered /\ SegmentsNonEmpty
    /\ M >= 2 /\ segments[1].start < segments[2].start /\ N > M

\* C6, Scenario A: "Hello world. This is great! Are you sure?" against the
\* segments (0.0, 1.5) and (1.6, 3.0) gives three captions, the first two
\* with the segments' windows and the third from 3.0 to 6.0.
ScenarioACaptions ==
    <<[text |-> <<"H", "e", "l", "l", "o", " ", "w", "o", "r", "l", "d">>,
       start |-> 0, end |-> 15],
      [text |-> <<"T", "h", "i", "s", " ", "i", "s", " ", "g", "r", "e", "a", "t">>,
       start |-> 16, end |-> 30],
      [text |-> <<"A", "r", "e", " ", "y", "o", "u", " ", "s", "u", "r", "e">>,
       start |-> 30, end |-> 60]>>

ScenarioARan == AlignerFinished /\ text = ScenarioAText /\ segments = ScenarioASegments

C6_ScenarioA == ScenarioARan => captions = ScenarioACaptions

\* C6's case: the scenario's inputs, aligned and carried to the end of the job.
C6_Witness == ScenarioARan /\ pc = "done"

\* C7: the offset is never negative; when the asset is at least as long as
\* the required duration the window [o, o + D] lies inside the asset (so o = 0
\* when the two are equal), and when it is shorter the offset is 0.
C7_OffsetWindowValid ==
    start_time # -1 =>
        /\ start_time >= 0
        /\ total_duration >= audio_duration =>
               start_time + audio_duration <= total_duration
        /\ total_duration = audio_duration => start_time = 0
        /\ total_duration < audio_duration => start_time = 0

\* C7's case: an asset longer than required, opened at the largest offset.
C7_Witness ==
    /\ start_time > 0
    /\ total_duration > audio_duration
    /\ start_time + audio_duration = total_duration

\* C8: the video stream handed to the encoder lasts exactly as long as the
\* narration audio, whatever the length of the background asset.
C8_StreamLastsAsLongAsAudio ==
    InLog("encode") =>
        StreamFrames(video, total_duration * FramesPerTick)
            = audio_duration * FramesPerTick

\* C9: the stages are created in the order input, scale, pad, loop, trim, one
\* overlay per caption, audio, output; the encoder runs at most once, only on
\* the complete graph, and exactly once in a job that returns.
StageKinds == {"input", "scale", "pad", "loop", "trim", "overlay", "audio", "output"}
StageEvents == SelectSeq(log, LAMBDA e : e \in StageKinds)
ExpectedStages(n) ==
    <<"input", "scale", "pad", "loop", "trim">> \o [k \in 1..n |-> "overlay"]
        \o <<"audio", "output">>
IsPrefix(a, b) == Len(a) <= Len(b) /\ SubSeq(b, 1, Len(a)) = a

C9_StageOrderAndSingleEncode ==
    /\ IsPrefix(StageEvents, ExpectedStages(Len(captions)))
    /\ video # <<>> => video[1] = Stage("input", <<start_time>>)
    /\ Count(log, "encode") <= 1
    /\ InLog("encode") =>
           /\ log[Len(log)] = "encode"
           /\ StageEvents = ExpectedStages(Len(captions))
           /\ Kinds(video) = SubSeq(StageEvents, 1, Len(StageEvents) - 2)
    /\ pc = "done" => Count(log, "encode") = 1

\* C9's case: a job with two captions or more that returned.
C9_Witness == pc = "done" /\ Len(captions) >= 2 /\ result # <<>>

\* C10: there is one overlay per rendered caption, the k-th overlay shows the
\* k-th image in the window of the k-th caption, all captions are overlaid
\* once the loop has ended, and no overlay starts before an earlier one.
Overlays == SelectSeq(video, LAMBDA st : st.kind = "overlay")

C10_OverlaysInCaptionOrder ==
    /\ Len(Overlays) = Len(caption_files)
    /\ Len(Overlays) <= Len(captions)
    /\ \A k \in 1..Len(Overlays) :
           /\ Overlays[k].args[1] = caption_files[k]
           /\ Overlays[k].args[4] = captions[k].start
           /\ Overlays[k].args[5] = captions[k].end
           /\ \A j \in 1..(k - 1) : Overlays[j].args[4] <= Overlays[k].args[4]
    /\ pc \in {"audio", "run", "done"} => Len(Overlays) = Len(captions)

\* C10's case: three overlays with different start times, all added.
C10_Witness ==
    /\ pc = "done" /\ Len(Overlays) = 3
    /\ Overlays[1].args[4] < Overlays[2].args[4]
    /\ Overlays[2].args[4] < Overlays[3].args[4]


\* An overlay's arguments by name.
FadeInStart(ov) == ov.args[2]
FadeOutStart(ov) == ov.args[3]
EnableFrom(ov) == ov.args[4]
EnableTo(ov) == ov.args[5]

\* C11 as stated: every overlay is enabled from its caption's start to its
\* end, fades in from start, fades out over 0.2 s up to end, the fade-in is
\* over when the fade-out begins and the fade-out does not begin before start.
C11_FadesInsideWindowInOrder ==
    \A k \in 1..Len(Overlays) :
        /\ EnableFrom(Overlays[k]) = captions[k].start
        /\ EnableTo(Overlays[k]) = captions[k].end
        /\ FadeInStart(Overlays[k]) = captions[k].start
        /\ FadeOutStart(Overlays[k]) + FadeDuration = captions[k].end
        /\ FadeInStart(Overlays[k]) + FadeDuration <= FadeOutStart(Overlays[k])
        /\ FadeOutStart(Overlays[k]) >= captions[k].start

\* C11 amended: window, fade-in start and fade-out end are as stated for every
\* caption; the fade-in is over when the fade-out begins exactly when the
\* window lasts 0.4 s or more, and the fade-out begins at or after start
\* exactly when the window lasts 0.2 s or more.
C11_FadesOrderedIffWindowLongEnough ==
    \A k \in 1..Len(Overlays) :
        LET window == captions[k].end - captions[k].start
        IN  /\ EnableFrom(Overlays[k]) = captions[k].start
            /\ EnableTo(Overlays[k]) = captions[k].end
            /\ FadeInStart(Overlays[k]) = captions[k].start
            /\ FadeOutStart(Overlays[k]) + FadeDuration = captions[k].end
            /\ (FadeInStart(Overlays[k]) + FadeDuration <= FadeOutStart(Overlays[k]))
                   <=> window >= 2 * FadeDuration
            /\ (FadeOutStart(Overlays[k]) >= captions[k].start)
                   <=> window >= FadeDuration

\* C11's case: an overlay for a window of 0.1 s beside one for a window of 3.0 s.
C11_Witness ==
    \E j, k \in 1..Len(Overlays) :
        /\ EnableTo(Overlays[j]) - EnableFrom(Overlays[j]) = 1
        /\ EnableTo(Overlays[k]) - EnableFrom(Overlays[k]) = DefaultDuration


\* The splitter has run on the text: text is the normalised text it split.
SplitDone ==
    /\ pc \notin {"check", "transcribe", "split"}
    /\ ~(pc = "raised" /\ log[Len(log)] \in {"check_video_exists", "transcribe"})

\* The pieces of the text, by position: a piece starts after position b (0 or
\* a terminator) and runs up to the next terminator or the end of the text.
TerminatorAt == {i \in 1..Len(text) : text[i] \in {".", "!", "?"}}
NextCut(b) ==
    LET later == {c \in TerminatorAt \cup {Len(text) + 1} : c > b}
    IN  CHOOSE c \in later : \A d \in later : c <= d
InkAfter(b) == {i \in (b + 1)..(NextCut(b) - 1) : text[i] \notin {" ", "\n"}}
Lowest(S) == CHOOSE x \in S : \A y \in S : x <= y
Highest(S) == CHOOSE x \in S : \A y \in S : x >= y
\* the piece after b, from its first to its last character that is not white
TrimmedPieceAfter(b) == SubSeq(text, Lowest(InkAfter(b)), Highest(InkAfter(b)))
PieceStarts == {b \in TerminatorAt \cup {0} : InkAfter(b) # {}}

\* C12: the sentences are the pieces of the normalised text between '.', '!'
\* and '?', in order, each trimmed, the empty ones dropped; so no sentence is
\* empty, starts or ends with white space or holds a terminator; a text with
\* no terminator and some character that is not white gives one sentence, a
\* text of terminators and white space only gives none.
C12_SentencesAreTrimmedPieces ==
    SplitDone =>
        /\ Len(sentences) = Cardinality(PieceStarts)
        /\ \A b \in PieceStarts :
               sentences[Cardinality({x \in PieceStarts : x <= b})] = TrimmedPieceAfter(b)
        /\ \A k \in 1..Len(sentences) :
               /\ sentences[k] # <<>>
               /\ sentences[k][1] \notin {" ", "\n"}
               /\ sentences[k][Len(sentences[k])] \notin {" ", "\n"}
               /\ \A i \in 1..Len(sentences[k]) : sentences[k][i] \notin {".", "!", "?"}
        /\ (TerminatorAt = {} /\ InkAfter(0) # {}) => Len(sentences) = 1
        /\ (\A i \in 1..Len(text) : text[i] \in {".", "!", "?", " ", "\n"}) => sentences = <<>>

\* C12's case: two different sentences around a terminator followed by a space.
C12_Witness ==
    /\ SplitDone
    /\ Len(sentences) = 2
    /\ sentences[1] # sentences[2]
    /\ \E i \in 1..(Len(text) - 1) : text[i] \in {".", "!", "?"} /\ text[i + 1] = " "

\* The number of occurrences of a character in a string, in a list of strings.
Occurrences(ch, str) == Cardinality({i \in 1..Len(str) : str[i] = ch})
RECURSIVE OccurrencesIn(_, _)
OccurrencesIn(ch, strs) ==
    IF strs = <<>> THEN 0 ELSE Occurrences(ch, Head(strs)) + OccurrencesIn(ch, Tail(strs))

\* C13 as stated: no punctuation character, a comma included, is left in a sentence.
C13_NoPunctuationSurvives ==
    SplitDone =>
        \A k \in 1..Len(sentences) :
            \A i \in 1..Len(sentences[k]) : sentences[k][i] \notin {".", "!", "?", ","}

\* C13 amended: no '.', '!' or '?' is left in a sentence, and every comma of
\* the text is left in one.
C13_OnlyTerminatorsRemoved ==
    SplitDone =>
        /\ \A ch \in {".", "!", "?"} : OccurrencesIn(ch, sentences) = 0
        /\ OccurrencesIn(",", sentences) = Occurrences(",", text)

\* C13's case: a sentence that holds a comma, cut at a terminator.
C13_Witness ==
    /\ SplitDone
    /\ TerminatorAt # {}
    /\ \E k \in 1..Len(sentences) : Occurrences(",", sentences[k]) > 0 /\ Len(sentences[k]) >= 3


\* C14: when the background asset is absent the job raises at its first
\* step: nothing but the existence test is ever called, no segment, graph
\* stage or caption image exists, and no path is returned.
C14_MissingAssetStopsBeforeAnyStage ==
    ~video_exists =>
        /\ \A k \in 1..Len(log) : log[k] = "check_video_exists"
        /\ Len(log) <= 1
        /\ segments = <<>> /\ video = <<>> /\ caption_files = <<>>
        /\ result = <<>>
        /\ pc \in {"check", "raised"}
        /\ pc = "raised" => exc = "Subway Surfers video not found"

\* C14's case: the asset is absent and the job has raised.
C14_Witness == ~video_exists /\ pc = "raised" /\ log = <<"check_video_exists">>


\* C15: a failure of any step ends the job: the failed call is the last
\* thing the job did, no call is made twice, nothing can follow a raise, no
\* path is returned with an exception, and a job that has ended has either
\* returned a path or raised, never both.
SingleCalls == {"check_video_exists", "transcribe", "probe_audio", "probe_video", "encode"}

C15_FailureIsFatal ==
    /\ \A c \in SingleCalls : Count(log, c) <= 1
    /\ Count(log, "render") <= Len(caption_files) + 1
    /\ pc = "raised" =>
           /\ exc # "" /\ result = <<>>
           /\ ~ENABLED Next
           /\ log[Len(log)] \in SingleCalls \cup {"render"}
           /\ log[Len(log)] = "render" => Count(log, "render") = Len(caption_files) + 1
           /\ log[Len(log)] # "encode" => ~InLog("encode")
    /\ pc = "done" => exc = "" /\ result # <<>> /\ ~ENABLED Next
    /\ pc \notin {"raised", "done"} => exc = "" /\ result = <<>> /\ ENABLED Next

\* C15's case: the second caption's render failed after the first was overlaid.
C15_Witness ==
    /\ pc = "raised" /\ exc = "caption render failed"
    /\ Len(caption_files) = 1 /\ Len(captions) >= 2



\* The message of the exception each failing call raises, as the call raised it.
UnderlyingMessage ==
    [c \in SingleCalls \cup {"render"} |->
        CASE c = "check_video_exists" -> "Subway Surfers video not found"
          [] c = "transcribe"  -> "transcription failed"
          [] c = "probe_audio" -> "audio probe failed"
          [] c = "probe_video" -> "video probe failed"
          [] c = "render"      -> "caption render failed"
          [] c = "encode"      -> "ffmpeg error"]

\* C16 as stated: a failed caption render reaches the caller with the prefix
\* 'Error creating caption image:' and a failed encoder run with the prefix
\* 'Error composing video:'.
C16_ErrorsWrappedWithStagePrefix ==
    pc = "raised" =>
        /\ log[Len(log)] = "render" =>
               exc = "Error creating caption image: " \o UnderlyingMessage["render"]
        /\ log[Len(log)] = "encode" =>
               exc = "Error composing video: " \o UnderlyingMessage["encode"]

\* C16, amended: the exception that reaches the caller is the one the
\* failing call raised, with its message unchanged and no prefix added.
C16_ErrorsReachCallerUnmodified ==
    pc = "raised" => exc = UnderlyingMessage[log[Len(log)]]

\* C16's case: the encoder failed after every caption was overlaid.
C16_Witness ==
    /\ pc = "raised" /\ log[Len(log)] = "encode"
    /\ Len(caption_files) >= 1 /\ exc = "ffmpeg error"



\* C17: the font size create_caption_image settles on lies between the
\* minimum (60) and the initial size (120); the step at line 100 leaves it
\* at 120 when the box measured at 120 is no wider than the canvas less the
\* margin, and otherwise makes it strictly smaller than 120 and equal to
\* the larger of floor(120 * (width - 100) / box width) and 60.
C17_FontSizeFitted ==
    /\ [](pc \in {"save", "rendered"} => font_size \in MinFontSize..InitialFontSize)
    /\ [][pc = "fit" /\ pc' = "save" =>
            IF text_width <= width - Margin
            THEN font_size' = InitialFontSize
            ELSE /\ font_size' < InitialFontSize
                 /\ font_size' = Max((InitialFontSize * (width - Margin)) \div text_width,
                                     MinFontSize)]_vars

\* C17's case: on the canvas of the job a box too wide at 120 was fitted
\* to a size strictly between the minimum and 120.
C17_Witness ==
    /\ pc = "save" /\ width = 1080 /\ lines # <<>>
    /\ font_size > MinFontSize /\ font_size < InitialFontSize



\* The wrap of lines 62-80 has run.
Wrapped == pc \notin {"wrap"} /\ width # 0

RECURSIVE ConcatAll(_)
ConcatAll(seqs) == IF seqs = <<>> THEN <<>> ELSE Head(seqs) \o ConcatAll(Tail(seqs))

\* The words of each produced line, line by line.
LineWords == [k \in 1..Len(lines) |-> Words(lines[k])]

\* C18: the wrap neither drops nor reorders text: the words of the lines,
\* taken in order, are the words of the text; every line holds a word and
\* is its words joined by single blanks; a word longer than the budget is
\* a line by itself, whole.
C18_WrapKeepsEveryWord ==
    Wrapped =>
        LET words == Words(caption_text)
            line_words == LineWords
        IN  /\ ConcatAll(line_words) = words
            /\ \A k \in 1..Len(lines) :
                   /\ lines[k] # <<>> /\ line_words[k] # <<>>
                   /\ lines[k] = JoinSpace(line_words[k])
            /\ \A i \in 1..Len(words) :
                   Len(words[i]) > LineBudget =>
                       \E k \in 1..Len(lines) : lines[k] = words[i]

\* C18's case: a text that wraps into a line of two words and a line that
\* is one word longer than the budget.
C18_Witness ==
    /\ pc = "rendered"
    /\ \E k \in 1..Len(lines) : Len(LineWords[k]) >= 2
    /\ \E k \in 1..Len(lines) : Len(lines[k]) > LineBudget



\* C19: a line of more than one word is at most 30 characters long, blanks
\* included, and a line ends before a word only when that word, with its
\* separating blank, would have made the line longer than 30 characters;
\* this holds at the end of the first line as at the end of any later one.
C19_SameBudgetOnEveryLine ==
    Wrapped =>
        /\ \A k \in 1..Len(lines) :
               Len(LineWords[k]) > 1 => Len(lines[k]) <= LineBudget
        /\ \A k \in 1..(Len(lines) - 1) :
               Len(lines[k]) + 1 + Len(LineWords[k + 1][1]) > LineBudget



\* The render whose image is in the file at path p when the encoder runs:
\* the last one that wrote it.
LastWriter(p) == Highest({k \in 1..Len(caption_files) : caption_files[k] = p})

\* C20: the caption images of one job are written to pairwise distinct
\* paths, and the file each overlay reads still holds the image of the
\* overlay's own caption.
C20_CaptionPathsDistinct ==
    /\ \A i, j \in 1..Len(caption_files) :
           i # j => caption_files[i] # caption_files[j]
    /\ \A i \in 1..Len(Overlays) : LastWriter(Overlays[i].args[1]) = i



\* C21 as stated: every caption image is rendered before the first stage
\* of the composition graph is created.
C21_RendersBeforeGraphBuild ==
    \A i, j \in 1..Len(log) :
        log[i] = "render" /\ log[j] \in StageKinds => i < j

\* The positions in the log of the entries e.
Positions(e) == {k \in 1..Len(log) : log[k] = e}

\* C21, amended: the job runs its steps one after another, transcription
\* before the split, the split before the alignment, the alignment complete
\* before the audio probe; the graph stages input, scale, pad, loop and trim
\* are created before any caption is rendered; each render is followed at
\* once by the overlay stage of its caption and each overlay stage follows
\* its render; the audio and output stages and the single encoder run come
\* after the last render, and by then there is one render per caption.
C21_RendersInsideGraphBuild ==
    /\ segments # <<>> \/ sentences # <<>> \/ captions # <<>> => InLog("transcribe")
    /\ captions # <<>> => sentences # <<>>
    /\ InLog("probe_audio") => Len(captions) = Len(sentences)
    /\ \A k \in Positions("render") :
           /\ SubSeq(StageEvents, 1, 5) = <<"input", "scale", "pad", "loop", "trim">>
           /\ \A s \in {"input", "scale", "pad", "loop", "trim"} :
                  \A j \in Positions(s) : j < k
           /\ \A s \in {"audio", "output", "encode"} :
                  \A j \in Positions(s) : k < j
           /\ k = Len(log) \/ log[k + 1] = "overlay"
           /\ k = Len(log) => pc = "raised"
    /\ \A k \in Positions("overlay") : k > 1 /\ log[k - 1] = "render"
    /\ InLog("audio") => Count(log, "render") = Len(captions)
    /\ Count(log, "render") <= Len(captions)
    /\ Count(log, "encode") <= 1
    /\ \A k \in Positions("encode") : k = Len(log)

\* C21's case: a job with two captions ran to its end.
C21_Witness ==
    /\ pc = "done" /\ Count(log, "render") = 2 /\ Len(captions) = 2
    /\ InLog("encode")



\* The caption sequence as a function of the narration text and the
\* transcript segments alone: sentence i takes the window of segment i
\* while there is one, and after that windows of the default length that
\* follow the last segment's end (or 0) without a gap.
CaptionsOf(t, segs) ==
    LET sents == SplitSentencesOf(NormalizeSpacing(t))
        base == IF segs = <<>> THEN 0 ELSE segs[Len(segs)].end
    IN  [i \in 1..Len(sents) |->
            IF i <= Len(segs)
            THEN [text |-> sents[i], start |-> segs[i].start, end |-> segs[i].end]
            ELSE [text |-> sents[i],
                  start |-> base + (i - Len(segs) - 1) * DefaultDuration,
                  end |-> base + (i - Len(segs)) * DefaultDuration]]

\* C22: the captions are determined by the narration text and the
\* transcript segments: whichever audio and asset durations, background
\* offset and clock readings a run meets, once its aligner has finished its
\* captions are the one sequence that text and those segments give, and no
\* later step changes them.  Two runs over the same text and segments
\* therefore hold equal captions, element by element.
C22_CaptionsDeterminedByInputs ==
    /\ [](AlignerFinished => captions = CaptionsOf(text, segments))
    /\ [][AlignerFinished => captions' = captions /\ text' = text /\ segments' = segments]_vars

\* C22's case: a finished job that drew a background offset other than 0
\* and read the clock at a later millisecond, with borrowed and estimated
\* captions.
C22_Witness ==
    /\ pc = "done" /\ start_time > 0 /\ clock > 0
    /\ M >= 1 /\ N > M /\ Len(caption_files) = N



\* _rank_articles has returned.
Ranked == news_pc \in {"ranked", "returned"}

\* The valid indices the response names, in its order.
NamedIndices == ValidIndices(RankedIndices(CleanIndices(ranking_response)), Len(articles))

\* C23: whenever the response names a valid index, the ranking is a
\* permutation of the articles: as long as the input, each article exactly
\* once, the named articles first in the response's order.
C23_RankingIsPermutation ==
    Ranked =>
        /\ Len(ranked) = Len(articles)
        /\ \A k \in 1..Len(articles) : Count(ranked, articles[k]) = 1
        /\ \A k \in 1..Min(Len(NamedIndices), Len(ranked)) :
               ranked[k] = articles[NamedIndices[k] + 1]



\* C24: invalid input is rejected before the generation service is
\* contacted: an empty article list raises 'No articles provided', a list
\* with an article that lacks a required field raises with a message that
\* holds 'Missing required fields', and in both cases no request is sent.
InvalidArticles ==
    story_articles = <<>> \/ \E k \in 1..Len(story_articles) :
                                ~(RequiredFields \subseteq story_articles[k])

C24_InvalidInputRejectedBeforeRequest ==
    InvalidArticles =>
        /\ story_requests = 0
        /\ story_pc \in {"check", "raised"}
        /\ story_result = <<>>
        /\ story_pc = "raised" /\ story_articles = <<>> =>
               story_exc = "No articles provided"
        /\ story_pc = "raised" /\ story_articles # <<>> =>
               story_exc = "Error generating story: Error generating story: "
                               \o "Missing required fields" \o " in article"

\* C24's case: a complete article followed by one that lacks fields, rejected.
C24_Witness ==
    /\ story_pc = "raised" /\ Len(story_articles) = 2
    /\ story_articles[1] = RequiredFields
    /\ story_articles[2] # RequiredFields



\* The distinct markers a story holds.
MarkersIn(story) == {story[k] : k \in 1..Len(story)} \cap Markers

\* C25: a story that is returned has between 150 and 450 words and holds
\* at least 3 distinct emotion markers; a generated story that does not
\* is not returned.
C25_ReturnedStoryMeetsRequirements ==
    /\ story_pc = "returned" =>
           /\ story_result = <<story_text>>
           /\ MinStoryWords <= Len(story_text) /\ Len(story_text) <= MaxStoryWords
           /\ Cardinality(MarkersIn(story_text)) >= RequiredMarkerCount
    /\ story_pc = "raised" => story_result = <<>>



\* Two characters are the same letter, whatever their case.
SameLetter(a, b) ==
    a = b \/ \E k \in 1..Len(LowerCase) : {a, b} = {LowerCase[k], UpperCase[k]}

\* The keyword occurs in s, whatever the case of the letters of s.
Occurs(keyword, s) ==
    \E i \in 1..(Len(s) - Len(keyword) + 1) :
        \A j \in 1..Len(keyword) : SameLetter(s[i + j - 1], keyword[j])

\* Category number k has a keyword that occurs in title + ' ' + description.
Matches(k) ==
    \E keyword \in Categories[k].keywords :
        Occurs(keyword, title \o <<" ">> \o (IF description = <<>> THEN <<>> ELSE description[1]))

\* C26: the category returned is one of politics, economy, society, world,
\* sports and general; it is the first, in that order, with a keyword that
\* occurs in title + ' ' + description whatever the case of the letters,
\* and it is general only when no keyword of any category occurs.
C26_FirstMatchingCategory ==
    detect_pc = "returned" =>
        /\ category \in {"politics", "economy", "society", "world", "sports", "general"}
        /\ [k \in 1..5 |-> Categories[k].name]
               = <<"politics", "economy", "society", "world", "sports">>
        /\ \A k \in 1..5 :
               category = Categories[k].name <=>
                   Matches(k) /\ \A j \in 1..(k - 1) : ~Matches(j)
        /\ category = "general" <=> \A k \in 1..5 : ~Matches(k)

\* C26's case: a title matching world in capitals and a description matching
\* economy, which comes first; the economy is returned.
C26_Witness ==
    /\ detect_pc = "returned" /\ category = "economy"
    /\ Matches(2) /\ Matches(4)
    /\ description = << <<"B", "A", "N", "K">> >>



\* The messages fetch_articles can catch and wrap.
CaughtMessages ==
    { "time data does not match format '%Y-%m-%d'",
      "No articles found for date",
      "Error ranking articles: API request failed - connection error",
      "Error ranking articles: No content generated in the response",
      "Error ranking articles: No valid indices found in API response",
      "Error ranking articles: Failed to parse indices: No valid article indices found" }

\* What C27 says of a call that raises: nothing is returned, and the
\* message begins with 'Error fetching news articles'; a malformed date, a
\* date without articles and a failed ranking each raise.
FetchFailuresWrapped ==
    /\ news_pc = "raised" =>
           /\ news_result = <<>>
           /\ \E m \in CaughtMessages : news_exc = "Error fetching news articles: " \o m
    /\ ~WellFormedDate(date) => news_pc \in {"parse_date", "raised"}
    /\ news_pc \in {"rank", "parse_response", "ranked", "returned"} => articles # <<>>
    /\ news_pc = "returned" =>
           /\ news_exc = "" /\ Len(news_result) = 1
           /\ ranked # <<>> /\ NamedIndices # <<>>

\* C27 as stated: a call returns a list that is not empty and has at most
\* max_articles articles, or raises as above; an empty list is never
\* returned.
C27_NonEmptyTopOrRaises ==
    /\ FetchFailuresWrapped
    /\ news_pc = "returned" =>
           /\ news_result[1] # <<>>
           /\ Len(news_result[1]) <= max_articles

\* C27, amended: with max_articles at least 1 a call returns a list that is
\* not empty and has at most max_articles articles, or raises as above;
\* with max_articles 0 it returns the empty list, and with a negative
\* max_articles the ranking less its last -max_articles articles.
C27_NonEmptyTopWhenLimitPositive ==
    /\ FetchFailuresWrapped
    /\ news_pc = "returned" =>
           /\ max_articles >= 1 =>
                  /\ news_result[1] # <<>>
                  /\ Len(news_result[1]) <= max_articles
                  /\ Len(news_result[1]) = Min(max_articles, Len(ranked))
           /\ max_articles = 0 => news_result[1] = <<>>
           /\ max_articles < 0 =>
                  Len(news_result[1]) = Max(Len(ranked) + max_articles, 0)
           /\ \A k \in 1..Len(news_result[1]) : news_result[1][k] = ranked[k]

\* C27's case: three articles ranked and the top two returned.
C27_Witness ==
    /\ news_pc = "returned" /\ max_articles = 2 /\ Len(articles) = 3
    /\ Len(news_result[1]) = 2



\* C28: not finding the preferred typeface fails no render.  At the first
\* load point (line 88) and at the one after the fit (line 104) the font
\* is Arial at the size asked for or the default font, the render goes on
\* to its next step in both cases, and a render that ends with the default
\* font returns a caption image path like any other; the one raise of a
\* render is the division at line 101, never a font load.
C28_FontFallbackKeepsRendering ==
    /\ [](/\ pc \in {"measure", "fit", "save", "rendered"} =>
                font \in {<<"Arial", font_size>>, <<"default">>}
          /\ pc = "rendered" => temp_path # <<>> /\ exc = ""
          /\ pc = "raised" => exc = "float division by zero" /\ text_width = 0
          /\ pc \in {"load_font", "measure", "fit", "save"} => ENABLED RenderNext)
    /\ [][/\ pc = "load_font" =>
                pc' = "measure" /\ font' \in {<<"Arial", InitialFontSize>>, <<"default">>}
          /\ pc = "fit" /\ font_size' # font_size =>
                pc' = "save" /\ font' \in {<<"Arial", font_size'>>, <<"default">>}]_vars

\* C28's case: a render that fell back to the default font at the load
\* point after the fit and returned its path.
C28_Witness ==
    /\ pc = "rendered" /\ font = <<"default">>
    /\ font_size < InitialFontSize /\ temp_path # <<>>



\* The failures C29 lists, as the caller sees them.
PostFailures ==
    { "Error posting to TikTok: login failed",
      "Error posting to TikTok: No such file or directory",
      "Error posting to TikTok: upload failed",
      "Error posting to TikTok: missing field in response" }

EarlierPollsPending ==
    \A k \in 1..(Len(polls) - 1) : polls[k] \in PendingStatuses

\* C30: the video is downloaded and its path returned only after a poll
\* that read 'done'; the poll that reads 'error' is the last one and the
\* call raises at once; after any other status the loop polls again and
\* nothing but a poll leaves it; the audio file exists from its creation
\* until the call returns and is deleted only then, so that it is still
\* there whenever the creation of the talking head raised.
C30_PollUntilDoneAudioKeptOnFailure ==
    /\ EarlierPollsPending
    /\ avatar_pc \in {"download", "unlink", "returned"} =>
           polls # <<>> /\ polls[Len(polls)] = "done"
    /\ avatar_result # <<>> => polls # <<>> /\ polls[Len(polls)] = "done"
    /\ polls # <<>> /\ polls[Len(polls)] = "error" =>
           /\ avatar_pc = "raised"
           /\ avatar_exc =
                  "Error generating avatar video: Error creating talking head video: D-ID API error: Unknown error"
    /\ avatar_pc = "poll" =>
           /\ \A k \in 1..Len(polls) : polls[k] \in PendingStatuses
           /\ Len(polls) < MaxPolls => ENABLED Poll
    /\ audio_exists <=> (audio_path # <<>> /\ avatar_pc # "returned")
    /\ avatar_pc = "returned" => avatar_exc = "" /\ Len(avatar_result) = 1
    /\ avatar_pc = "raised" =>
           /\ avatar_exc # ""
           /\ audio_path # <<>> => audio_exists

\* C30's case: a poll read a pending status, the next one read 'error',
\* the call raised and the audio file is still there.
C30_Witness ==
    /\ avatar_pc = "raised"
    /\ Len(polls) >= 2
    /\ polls[Len(polls)] = "error"
    /\ audio_exists

====
